---- MODULE Spec2Model ----
(***************************************************************************)
(* Workflow engine (src/wrk.py) and execution-token dependency             *)
(* (src/deps.py) of the orchestration controller.                          *)
(*                                                                         *)
(* Scheduling.  The route handlers of src/wrk.py are `async def`: the      *)
(* event loop runs a handler without interruption from one `await` to the  *)
(* next.  approve_workflow, deny_workflow, create_workflow,                *)
(* request_reexecution and approve_reexecution hold no `await`, so each is *)
(* one atomic action.  execute_workflow awaits execute_script once, so it  *)
(* is two actions: the part up to the call, and the part after the call    *)
(* returned or raised.  require_execution_token._dep is a plain `def`      *)
(* dependency: FastAPI runs it in a worker thread, so its two storage      *)
(* calls are separate steps that interleave with other requests.           *)
(*                                                                         *)
(* The repository controller/db/db.py is not among the sources; its        *)
(* methods are modelled from the specification's data model (section 3)    *)
(* and state machine (section 4.5).                                        *)
(***************************************************************************)
EXTENDS Integers, Sequences, FiniteSets, TLC

\* ------------------------------------------------------------------ bounds
MaxTime == 2
MaxLevels == 2
MaxRequests == 2
MaxPathLen == 3
MaxPrefixLen == 2
MaxIdLen == 3
MaxChunks == 2
MaxHeaders == 2

\* ------------------------------------------------------------- input sets
\* WorkflowIds are the identifiers create_workflow can hand out; RequestIds
\* are the identifiers a request path may name.
WorkflowIds == {"wf_1"}
RequestIds == WorkflowIds \cup {"wf_unknown"}
Requestor == "carol"
Users == {"alice", "bob"}
Callers == {"c1", "c2"}
Levels == {1, 2}
ReqLevels == 0..MaxLevels
TTLs == {1, 2}
ScriptIds == {"", "disk_check"}
TargetLists == {<<>>, <<"A1">>}
NoWf == "-"
\* The X-Execution-Token header: a token value, or absent.  A token's value
\* is its position in the execution_tokens table.
NoToken == 0
HeaderTokens == 0..MaxRequests
NoApprove == [user |-> "-", workflow_id |-> NoWf, approver |-> "-", level |-> 0,
              seen_status |-> "none", seen_count |-> 0]
NoArgs == [user |-> "-", workflow_id |-> NoWf, token |-> NoToken, checked_at |-> 0]
\* An execution token is short-lived: minutes from minting to expiry.
TokenTTL == 1

VARIABLES
    workflows,       \* the workflows table: workflow_id -> row (with approvals)
    audit,           \* the audit_log table: workflow_id -> sequence of entries
    now,             \* wall clock, in minutes
    callPc,          \* execute_workflow calls: "idle" or "awaiting" execute_script
    callWf,          \* the workflow an awaiting execute call is about
    resp,            \* the last HTTP response sent
    executorCalls,   \* history: invocations of execute_script per workflow
    terminalEntries, \* history: entries into executed/failed per workflow
    reexecRequests,  \* the execution_approval_requests table, request_id = index
    executionTokens, \* the execution_tokens table, token = index
    depPc,           \* require_execution_token threads: "idle" or "checked"
    depArgs,         \* what a checked thread was called with, and the row it read
    admissions,      \* history: successful require_execution_token calls per token
    approvePc,       \* approve requests in flight: "idle" or "issued"
    approveArgs,     \* the last approve request of each caller
    config,          \* the proxy's ProxyConfig, fixed after load_config
    router,          \* Router.backends: the backend ids as Router.__init__ sorted them
    sessions,        \* AuthManager.sessions: sid -> session
    conn,            \* client connections of the proxy: "closed" or "open"
    presp,           \* what the proxy did with the last request it handled
    agents,          \* the agents table: agent_name -> row
    grants,          \* the user_agent_access table: username -> environments
    aresp,           \* the last response of the agents routes
    dresp,           \* the outcome of the last call of an auth dependency
    identity,        \* an identity string and what normalize_identity made of it
    report_scripts,  \* the report_scripts table: script_id -> row
    report_runs,     \* the report_runs table: run_id -> row
    run_info,        \* the run state dicts made by run_report: run_id -> dict
    active_runs,     \* the keys of the module's active_runs dict
    task,            \* the execute_report task of each run
    sockets,         \* the websocket_output handlers and their clients
    dispatched,      \* history: the runs posted to an agent
    rresp,           \* the last response of run_report
    mailer,          \* the condition of the notifier: what send_email does when called
    tunnel           \* a WebSocket tunnel of the proxy: its two copy tasks and its ends

engineVars == <<workflows, audit, callPc, callWf, executorCalls, terminalEntries>>
reexecVars == <<reexecRequests, executionTokens>>
depVars == <<depPc, depArgs, admissions>>
approveVars == <<approvePc, approveArgs>>
controllerVars == <<engineVars, reexecVars, depVars, approveVars, resp>>
proxyVars == <<config, router, sessions, conn, presp>>
agentVars == <<agents, grants, aresp>>
\* What lives outside the controller's workflow routes, outside the proxy,
\* outside the agents routes.
depsVars == <<dresp, identity>>
reportVars == <<report_scripts, report_runs, run_info, active_runs, task, sockets,
                dispatched, rresp>>
outsideController == <<proxyVars, agentVars, depsVars, reportVars, mailer, tunnel>>
outsideProxy == <<controllerVars, agentVars, depsVars, reportVars, mailer, tunnel>>
outsideAgents == <<controllerVars, proxyVars, now, depsVars, reportVars, mailer, tunnel>>
outsideDeps == <<controllerVars, proxyVars, now, agentVars, reportVars, mailer, tunnel>>
outsideReports == <<controllerVars, proxyVars, now, grants, aresp, depsVars, mailer, tunnel>>
outsideTunnel == <<controllerVars, proxyVars, now, agentVars, depsVars, reportVars, mailer>>
vars == <<engineVars, reexecVars, depVars, approveVars, now, resp, outsideController>>

Response(op, who, wf, code, detail) ==
    [op |-> op, who |-> who, wf |-> wf, code |-> code, detail |-> detail]

\* send_email, called with a recipient: it sends and returns True, it fails
\* inside its try statement and returns False, or it raises before that
\* statement, where it builds the message.
MailOutcomes == {"sent", "false", "raised"}
send_email == mailer
\* The response of a handler that calls send_email outside any try statement
\* once its work is done: the framework answers an exception with a 500.
after_send_email(response) ==
    IF send_email = "raised"
    THEN [response EXCEPT !.code = 500, !.detail = "Internal Server Error"]
    ELSE response

\* ------------------------------------------------------------ repository
\* Expiry is observed, not scheduled: a pending row whose TTL elapsed reads
\* as expired.
expires_at(row) == row.created_at + row.ttl_minutes

get_workflow(w) ==
    LET row == workflows[w] IN
    IF row.status = "pending" /\ now > expires_at(row)
    THEN [row EXCEPT !.status = "expired"]
    ELSE row

workflow_exists(w) == w \in DOMAIN workflows

\* The status an observer reads ("none" before creation).
status_of(w) == IF workflow_exists(w) THEN get_workflow(w).status ELSE "none"

approvers_of(w) ==
    IF workflow_exists(w)
    THEN {workflows[w].approvals[i].approver : i \in DOMAIN workflows[w].approvals}
    ELSE {}

db_create_workflow(w, script_id, targets, requestor, required_levels, ttl_minutes) ==
    workflows @@ (w :> [status |-> "pending",
                        script_id |-> script_id,
                        targets |-> targets,
                        requestor |-> requestor,
                        required_approval_levels |-> required_levels,
                        ttl_minutes |-> ttl_minutes,
                        created_at |-> now,
                        approvals |-> <<>>])

\* add_approval answers False, and writes nothing, when the approver already
\* has an approval on the workflow.
add_approval_ok(w, approver) == approver \notin approvers_of(w)

add_approval(wfs, w, approver, level) ==
    [wfs EXCEPT ![w].approvals =
        Append(@, [approver |-> approver, level |-> level])]

update_workflow_status(wfs, w, status) == [wfs EXCEPT ![w].status = status]

add_audit(w, action, user) ==
    [audit EXCEPT ![w] = Append(@, [action |-> action, user |-> user])]

\* uuid4: an identifier no existing workflow has.
NewWorkflowId(w) == w \in WorkflowIds \ DOMAIN workflows

\* ----------------------------------------------------------- proxy inputs
\* A path, and a path_prefix, is a string over a two-letter alphabet.
Chars == {"a", "b"}
SeqsUpTo(S, n) == UNION {[1..k -> S] : k \in 0..n}
Paths == SeqsUpTo(Chars, MaxPathLen)
Prefixes == SeqsUpTo(Chars, MaxPrefixLen)
\* The backends of the YAML file, in the order the file lists them.
BackendOrder == <<"b1", "b2">>
BackendIds == {BackendOrder[i] : i \in DOMAIN BackendOrder}
NoBackend == ""
\* default_backend may be empty, or name a backend the file does not define.
DefaultIds == BackendIds \cup {NoBackend, "ghost"}
SessionTimeout == 2
Sids == {"s1"}
\* A proxy_session cookie may name a session the store never held.
CookieSids == Sids \cup {"s0"}
NoSid == "-"
CertCNs == {"alice"}
NoCert == "-"
NtlmUsers == {"bob"}
Conns == {"k1"}
\* None, where a user or session dict is expected.
NoUser == [cn |-> "-", auth_method |-> "none"]
\* The Authorization header: absent, another scheme, an NTLM Type-1 or
\* Type-3 message, or "NTLM " followed by bytes that do not parse.
Authorizations ==
    {[kind |-> k, username |-> "-"] : k \in {"none", "basic", "type1", "garbage"}}
    \cup {[kind |-> "type3", username |-> u] : u \in NtlmUsers}
Requests ==
    [path : Paths, cert : CertCNs \cup {NoCert}, cookie : CookieSids \cup {NoSid},
     authorization : Authorizations]
BackendConfig(prefix, auth_required) ==
    [path_prefix |-> prefix, auth_required |-> auth_required, strip_prefix |-> TRUE]
ProxyConfig(backends, default_backend, ntlm_enabled) ==
    [backends |-> backends, default_backend |-> default_backend,
     ntlm_enabled |-> ntlm_enabled, session_timeout |-> SessionTimeout]
\* A deployment: an authenticated backend, an open one under a longer prefix.
DeployedConfig ==
    ProxyConfig("b1" :> BackendConfig(<<"a">>, TRUE)
                  @@ "b2" :> BackendConfig(<<"a", "b">>, FALSE),
                NoBackend, TRUE)
NoRequest ==
    [path |-> <<>>, cert |-> NoCert, cookie |-> NoSid,
     authorization |-> [kind |-> "none", username |-> "-"]]
NoReply ==
    [op |-> "none", conn |-> "-", req |-> NoRequest, status |-> 0, www_authenticate |-> "",
     keep_alive |-> FALSE, bid |-> NoBackend, contacted |-> FALSE,
     forwarded |-> FALSE, user |-> NoUser]

\* ------------------------------------------------------------ proxy: Router
StartsWith(path, prefix) ==
    Len(prefix) <= Len(path) /\ SubSeq(path, 1, Len(prefix)) = prefix

\* config.backends.items(): the backends defined, in the order of the file.
ListedBackends(cfg) ==
    SelectSeq(BackendOrder, LAMBDA b : b \in DOMAIN cfg.backends)

RemoveAt(seq, i) == SubSeq(seq, 1, i - 1) \o SubSeq(seq, i + 1, Len(seq))

\* Router.__init__ without its sort: the backends as listed.
UnsortedBackends(backends, ids) == ids

\* Router.__init__: sorted(..., key=len(path_prefix), reverse=True), a stable
\* sort, so backends with prefixes of one length keep the order of the file.
RECURSIVE SortedBackends(_, _)
SortedBackends(backends, ids) ==
    IF ids = <<>> THEN <<>>
    ELSE LET longest == CHOOSE i \in DOMAIN ids :
                 /\ \A j \in DOMAIN ids :
                       Len(backends[ids[j]].path_prefix) <= Len(backends[ids[i]].path_prefix)
                 /\ \A j \in 1..(i - 1) :
                       Len(backends[ids[j]].path_prefix) < Len(backends[ids[i]].path_prefix)
         IN <<ids[longest]>> \o SortedBackends(backends, RemoveAt(ids, longest))

\* ---------------------------------------------------------- agents inputs
AgentNames == {"ag1", "ag2"}
Hosts == {"h1", "h2"}
Ports == {1, 2}
VALID_ENVIRONMENTS == {"DEV", "PROD"}
AgentStatuses == {"online", "offline"}
NoAgent == "-"
\* Optional[bool] ssl_enabled of an update body: NoAgent for a body without it.
SslUpdates == {"true", "false", NoAgent}
\* The admins and the environments granted to them.
Admins == {"alice", "bob"}
DeployedGrants == [u \in Admins |-> IF u = "alice" THEN {"*"} ELSE {"DEV"}]
\* The rows of the users table: the admins and a user without any grant.
Principals == Admins \cup {"carol"}
\* Optional[int] limit of the list calls: NoLimit for None.
NoLimit == 0
Limits == {NoLimit, 1}
NoAgentResponse ==
    [op |-> "none", who |-> "-", agent_name |-> NoAgent, code |-> 0, detail |-> "",
     agents |-> <<>>, count |-> 0]

\* ------------------------------------------------------------ deps inputs
\* The users table: username -> role. "-" stands for None throughout.
None == "-"
UserRoles == [u \in Principals |->
                 IF u = "alice" THEN "admin" ELSE IF u = "bob" THEN "ops" ELSE "viewer"]
\* The tokens table: value -> (token_name, role, revoked).
Tokens ==
    [tok_admin |-> [token_name |-> "ci", role |-> "admin", revoked |-> 0],
     tok_ops |-> [token_name |-> "ops", role |-> "ops", revoked |-> 0],
     tok_agent |-> [token_name |-> "ag1", role |-> "agent", revoked |-> 0],
     tok_revoked |-> [token_name |-> "old", role |-> "admin", revoked |-> 1]]
\* The headers of a request that the dependencies read, "" for an absent one.
HeaderUsers == Principals \cup {"", "dave"}
HeaderMethods == {"", "smartcard", "ntlm", "wna", "basic"}
HeaderAdminTokens == {"", "tok_admin", "tok_ops", "tok_revoked", "tok_unknown"}
HeaderAgentTokens == {"", "tok_agent", "tok_ops"}
DepRequests ==
    [auth_user : HeaderUsers, auth_method : HeaderMethods,
     admin_token : HeaderAdminTokens, agent_token : HeaderAgentTokens]
NoPrincipal == [username |-> None, role |-> None, auth_method |-> None]
\* Identity strings, as sequences of characters: a letter, the backslash, the
\* at sign, the blank, the parentheses and the two quotes.
Letter == "a"
Backslash == "\\"
Blank == " "
DoubleQuote == "\""
SingleQuote == "'"
IdChars == {Letter, Backslash, "@", Blank, "(", ")", DoubleQuote, SingleQuote}
IdStrings == SeqsUpTo(IdChars, MaxIdLen)
NoIdentity == [raw |-> <<>>, normalized |-> <<>>, applied |-> 0]
NoDepRequest == [auth_user |-> "", auth_method |-> "", admin_token |-> "", agent_token |-> ""]
NoPrincipalReply ==
    [op |-> "none", request |-> NoDepRequest, code |-> 0, user |-> NoPrincipal,
     verified |-> NoPrincipal]

\* --------------------------------------------------------- reports inputs
\* The report_scripts rows: one script with a required parameter, one without
\* parameters.
ParamNames == {"path"}
DeployedScripts ==
    [disk_usage |-> [script_path |-> "du.sh",
                     parameters |-> <<[name |-> "path", required |-> TRUE]>>],
     uptime |-> [script_path |-> "uptime.sh", parameters |-> <<>>]]
ReportScriptIds == {"disk_usage", "uptime", "ghost"}
\* run-<uuid4>: the run ids run_report can draw.
RunIds == {"run-1"}
WebSockets == {"w1", "w2"}
\* The registry the reports run against: one agent online, one offline.
DeployedAgents ==
    [ag1 |-> [host |-> "h1", port |-> 1, status |-> "online", ssl_enabled |-> TRUE,
              environment |-> "DEV"],
     ag2 |-> [host |-> "h2", port |-> 1, status |-> "offline", ssl_enabled |-> TRUE,
              environment |-> "DEV"]]
ReportTargets == DOMAIN DeployedAgents \cup {"ag9"}
\* `late` is history: the run's row was terminal when the socket subscribed.
NoSocket == [pc |-> "new", run |-> None, ridx |-> 0, client |-> "open", recv |-> <<>>,
             late |-> FALSE]
TerminalRunStatuses == {"completed", "failed", "timeout"}
\* The exit_code of a row or dict that has none yet (NULL, an absent key).
NoExitCode == 99
\* The frames sent to subscribers.
OutputFrame(data) == [type |-> "output", data |-> data, status |-> None, exit_code |-> 0]
CompleteFrame(status, exit_code) ==
    [type |-> "complete", data |-> "", status |-> status, exit_code |-> exit_code]
ErrorFrame == [type |-> "error", data |-> "Run not found or already completed",
               status |-> None, exit_code |-> 0]
\* What the post to the agent's /execute can give: a 200 with the result, another
\* status, a client timeout, any other exception.
AgentReplies ==
    [kind : {"200"}, stdout : {"", "out"}, stderr : {"", "err"}, exit_code : {0, 1}]
    \cup [kind : {"503", "timeout", "exception"}, stdout : {""}, stderr : {""},
          exit_code : {0}]
\* The statements of execute_report that follow the post, one step each.
BroadcastOutput(data) == [op |-> "out", data |-> data, status |-> None, exit_code |-> 0]
SetStatus(status, exit_code) ==
    [op |-> "set", data |-> "", status |-> status, exit_code |-> exit_code]
BroadcastComplete(status, exit_code) ==
    [op |-> "complete", data |-> "", status |-> status, exit_code |-> exit_code]
UpdateRow(status, exit_code) ==
    [op |-> "persist", data |-> "", status |-> status, exit_code |-> exit_code]
Sleep == [op |-> "sleep", data |-> "", status |-> None, exit_code |-> 0]

\* A task that asyncio.create_task has scheduled and that has not run yet.
NewTask == [pc |-> "created", prog |-> <<>>, ip |-> 0, started |-> FALSE, idx |-> 0,
            dead |-> <<>>, handling |-> FALSE, reply |-> None]
NoRunResponse == [op |-> "none", script_id |-> None, target |-> None, code |-> 0,
                  detail |-> "", run_id |-> None]

\* ------------------------------------------------------------------ Init
ControllerStart ==
    /\ workflows = <<>>
    /\ audit = [w \in WorkflowIds |-> <<>>]
    /\ now = 0
    /\ callPc = [c \in Callers |-> "idle"]
    /\ callWf = [c \in Callers |-> NoWf]
    /\ resp = Response("none", "-", NoWf, 0, "")
    /\ executorCalls = [w \in WorkflowIds |-> 0]
    /\ terminalEntries = [w \in WorkflowIds |-> 0]
    /\ reexecRequests = <<>>
    /\ executionTokens = <<>>
    /\ depPc = [c \in Callers |-> "idle"]
    /\ depArgs = [c \in Callers |-> NoArgs]
    /\ admissions = [t \in 1..MaxRequests |-> 0]
    /\ approvePc = [c \in Callers |-> "idle"]
    /\ approveArgs = [c \in Callers |-> NoApprove]

\* AuthManager.__init__ and a listening server: no session, no connection.
ProxyStart ==
    /\ sessions = <<>>
    /\ conn = [k \in Conns |-> "closed"]
    /\ presp = NoReply

\* No agent registered yet.
AgentsStart ==
    /\ agents = <<>>
    /\ grants = DeployedGrants
    /\ aresp = NoAgentResponse

\* A notifier that delivers.
MailerStart == mailer = "sent"

\* The two copy tasks of a tunnel: fwd(cr, bw) and fwd(br, cw).
Directions == {"c2b", "b2c"}
Other(d) == IF d = "c2b" THEN "b2c" ELSE "c2b"
\* The end a direction reads from and the end it writes to.
ReadEnd(d) == IF d = "c2b" THEN "client" ELSE "backend"
WriteEnd(d) == IF d = "c2b" THEN "backend" ELSE "client"
NewFwd == [pc |-> "reading", must_cancel |-> FALSE]
\* No upgrade request served.
NoTunnel ==
    [pc |-> "none",
     fwd |-> [d \in Directions |-> [pc |-> "done", must_cancel |-> FALSE]],
     sent |-> [d \in Directions |-> 0],
     inbox |-> [d \in Directions |-> 0],
     eof |-> [d \in Directions |-> FALSE],
     forwarded |-> [d \in Directions |-> 0],
     closed |-> [e \in {"client", "backend"} |-> FALSE],
     after_end |-> 0]
\* _proxy_ws has created its two tasks and waits for the first to complete.
OpenTunnel ==
    [NoTunnel EXCEPT !.pc = "waiting", !.fwd = [d \in Directions |-> NewFwd]]
TunnelStart == tunnel = NoTunnel

\* No dependency called yet.
DepsStart ==
    /\ dresp = NoPrincipalReply
    /\ identity = NoIdentity

\* The deployed report scripts, no run started, no subscriber connected.
ReportsStart ==
    /\ report_scripts = DeployedScripts
    /\ report_runs = <<>>
    /\ run_info = <<>>
    /\ active_runs = {}
    /\ task = <<>>
    /\ sockets = [w \in WebSockets |-> NoSocket]
    /\ dispatched = {}
    /\ rresp = NoRunResponse

Init ==
    /\ ControllerStart
    /\ ProxyStart
    /\ AgentsStart
    /\ DepsStart
    /\ ReportsStart
    /\ MailerStart
    /\ TunnelStart
    /\ config = DeployedConfig
    /\ router = SortedBackends(config.backends, ListedBackends(config))

\* --------------------------------------------------------------- actions
\* POST /workflows
create_workflow(u, w, script_id, targets, required_levels, ttl_minutes) ==
    /\ NewWorkflowId(w)
    /\ workflows' = db_create_workflow(w, script_id, targets, u, required_levels, ttl_minutes)
    /\ audit' = add_audit(w, "created", u)
    /\ resp' = Response("create", u, w, 200, "pending")
    /\ UNCHANGED <<now, callPc, callWf, executorCalls, terminalEntries, reexecVars, depVars, approveVars>>
    /\ UNCHANGED outsideController

\* approve_body without its test `workflow["status"] != "pending"`.
approve_body_no_status_check(c, u, w, approver, level) ==
    IF ~workflow_exists(w)
    THEN /\ resp' = Response("approve", c, w, 404, "Workflow not found")
         /\ UNCHANGED <<workflows, audit>>
    ELSE IF ~add_approval_ok(w, approver)
    THEN /\ resp' = Response("approve", c, w, 400, "Already approved by this user")
         /\ UNCHANGED <<workflows, audit>>
    ELSE LET added == add_approval(workflows, w, approver, level) IN
         IF Len(added[w].approvals) >= added[w].required_approval_levels
         THEN /\ workflows' = update_workflow_status(added, w, "approved")
              /\ audit' = add_audit(w, "fully_approved", approver)
              /\ resp' = Response("approve", c, w, 200, "Workflow fully approved")
         ELSE /\ workflows' = added
              /\ audit' = add_audit(w, "partial_approval", approver)
              /\ resp' = Response("approve", c, w, 200, "Approval added")

\* approve_body with the result of add_approval ignored.
approve_body_ignoring_success(c, u, w, approver, level) ==
    IF ~workflow_exists(w)
    THEN /\ resp' = Response("approve", c, w, 404, "Workflow not found")
         /\ UNCHANGED <<workflows, audit>>
    ELSE IF get_workflow(w).status # "pending"
    THEN /\ resp' = Response("approve", c, w, 400,
                             "Workflow is already " \o get_workflow(w).status)
         /\ UNCHANGED <<workflows, audit>>
    ELSE LET added == IF add_approval_ok(w, approver)
                      THEN add_approval(workflows, w, approver, level)
                      ELSE workflows
         IN
         IF Len(added[w].approvals) >= added[w].required_approval_levels
         THEN /\ workflows' = update_workflow_status(added, w, "approved")
              /\ audit' = add_audit(w, "fully_approved", approver)
              /\ resp' = Response("approve", c, w, 200, "Workflow fully approved")
         ELSE /\ workflows' = added
              /\ audit' = add_audit(w, "partial_approval", approver)
              /\ resp' = Response("approve", c, w, 200, "Approval added")

\* POST /workflows/{id}/approve, by principal u with body {approver, level}:
\* the handler body, which runs without suspension.
approve_body(c, u, w, approver, level) ==
    IF ~workflow_exists(w)
    THEN /\ resp' = Response("approve", c, w, 404, "Workflow not found")
         /\ UNCHANGED <<workflows, audit>>
    ELSE IF get_workflow(w).status # "pending"
    THEN /\ resp' = Response("approve", c, w, 400,
                             "Workflow is already " \o get_workflow(w).status)
         /\ UNCHANGED <<workflows, audit>>
    ELSE IF ~add_approval_ok(w, approver)
    THEN /\ resp' = Response("approve", c, w, 400, "Already approved by this user")
         /\ UNCHANGED <<workflows, audit>>
    ELSE LET added == add_approval(workflows, w, approver, level) IN
         IF Len(added[w].approvals) >= added[w].required_approval_levels
         THEN /\ workflows' = update_workflow_status(added, w, "approved")
              /\ audit' = add_audit(w, "fully_approved", approver)
              /\ resp' = Response("approve", c, w, 200, "Workflow fully approved")
         ELSE /\ workflows' = added
              /\ audit' = add_audit(w, "partial_approval", approver)
              /\ resp' = Response("approve", c, w, 200, "Approval added")

\* An approve request served with no other request in between.
approve_workflow(u, w, approver, level) ==
    /\ approve_body(u, u, w, approver, level)
    /\ UNCHANGED <<now, callPc, callWf, executorCalls, terminalEntries,
                   reexecVars, depVars, approveVars>>
    /\ UNCHANGED outsideController

\* An approve request arrives and passes require_approver (a worker thread);
\* its handler body is queued on the event loop.  `seen` is what the store
\* held for the workflow when the request was issued.
approve_issue(c, u, w, approver, level) ==
    /\ approvePc[c] = "idle"
    /\ approvePc' = [approvePc EXCEPT ![c] = "issued"]
    /\ approveArgs' = [approveArgs EXCEPT ![c] =
           [user |-> u, workflow_id |-> w, approver |-> approver, level |-> level,
            seen_status |-> status_of(w),
            seen_count |-> IF workflow_exists(w) THEN Len(workflows[w].approvals) ELSE 0]]
    /\ UNCHANGED <<engineVars, reexecVars, depVars, now, resp>>
    /\ UNCHANGED outsideController

\* The event loop runs the queued handler body of request c.
approve_handle(c) ==
    /\ approvePc[c] = "issued"
    /\ approve_body(c, approveArgs[c].user, approveArgs[c].workflow_id,
                    approveArgs[c].approver, approveArgs[c].level)
    /\ approvePc' = [approvePc EXCEPT ![c] = "idle"]
    /\ UNCHANGED <<now, callPc, callWf, executorCalls, terminalEntries,
                   reexecVars, depVars, approveArgs>>
    /\ UNCHANGED outsideController

\* deny_workflow without its test of the status.
deny_workflow_any_status(u, w) ==
    /\ UNCHANGED <<now, callPc, callWf, executorCalls, terminalEntries, reexecVars, depVars, approveVars>>
    /\ IF ~workflow_exists(w)
       THEN /\ resp' = Response("deny", u, w, 404, "Workflow not found")
            /\ UNCHANGED <<workflows, audit>>
       ELSE /\ workflows' = update_workflow_status(workflows, w, "denied")
            /\ audit' = add_audit(w, "denied", u)
            /\ resp' = Response("deny", u, w, 200, "Workflow denied")
    /\ UNCHANGED outsideController

\* POST /workflows/{id}/deny
deny_workflow(u, w) ==
    /\ UNCHANGED <<now, callPc, callWf, executorCalls, terminalEntries, reexecVars, depVars, approveVars>>
    /\ IF ~workflow_exists(w)
       THEN /\ resp' = Response("deny", u, w, 404, "Workflow not found")
            /\ UNCHANGED <<workflows, audit>>
       ELSE IF get_workflow(w).status # "pending"
       THEN /\ resp' = Response("deny", u, w, 400, "Cannot deny workflow with status: " \o get_workflow(w).status)
            /\ UNCHANGED <<workflows, audit>>
       ELSE /\ workflows' = update_workflow_status(workflows, w, "denied")
            /\ audit' = add_audit(w, "denied", u)
            /\ resp' = Response("deny", u, w, 200, "Workflow denied")
    /\ UNCHANGED outsideController

\* execute_rejection without its last status test (`status != "approved"`).
execute_rejection_named_only(wf) ==
    IF wf.status = "executed" THEN "Workflow has already been executed"
    ELSE IF wf.status = "denied" THEN "Workflow was denied"
    ELSE IF wf.status = "expired" THEN "Workflow has expired"
    ELSE IF wf.script_id = "" THEN "Workflow has no script"
    ELSE IF wf.targets = <<>> THEN "Workflow has no targets"
    ELSE ""

\* The reason execute_workflow gives for refusing a workflow, "" when it
\* admits it.
execute_rejection(wf) ==
    IF wf.status = "executed" THEN "Workflow has already been executed"
    ELSE IF wf.status = "denied" THEN "Workflow was denied"
    ELSE IF wf.status = "expired" THEN "Workflow has expired"
    ELSE IF wf.status # "approved"
        THEN "Workflow is not approved (status: " \o wf.status \o ")"
    ELSE IF wf.script_id = "" THEN "Workflow has no script"
    ELSE IF wf.targets = <<>> THEN "Workflow has no targets"
    ELSE ""

\* execute_workflow without `update_workflow_status(workflow_id, "executing")`
\* before the call of execute_script.
execute_workflow_unmarked(c, w, token) ==
    /\ callPc[c] = "idle"
    /\ UNCHANGED <<now, audit, terminalEntries, reexecVars, depVars, approveVars>>
    /\ IF ~workflow_exists(w)
       THEN /\ resp' = Response("execute", c, w, 404, "Workflow not found")
            /\ UNCHANGED <<workflows, callPc, callWf, executorCalls>>
       ELSE IF execute_rejection(get_workflow(w)) # ""
       THEN /\ resp' = Response("execute", c, w, 400, execute_rejection(get_workflow(w)))
            /\ UNCHANGED <<workflows, callPc, callWf, executorCalls>>
       ELSE /\ workflows' = workflows
            /\ executorCalls' = [executorCalls EXCEPT ![w] = @ + 1]
            /\ callPc' = [callPc EXCEPT ![c] = "awaiting"]
            /\ callWf' = [callWf EXCEPT ![c] = w]
            /\ resp' = Response("execute", c, w, 0, "dispatched")
    /\ UNCHANGED outsideController

\* POST /workflows/{id}/execute, up to the call of execute_script.  The
\* X-Execution-Token header the request may carry is not read.
execute_workflow(c, w, token) ==
    /\ callPc[c] = "idle"
    /\ UNCHANGED <<now, audit, terminalEntries, reexecVars, depVars, approveVars>>
    /\ IF ~workflow_exists(w)
       THEN /\ resp' = Response("execute", c, w, 404, "Workflow not found")
            /\ UNCHANGED <<workflows, callPc, callWf, executorCalls>>
       ELSE IF execute_rejection(get_workflow(w)) # ""
       THEN /\ resp' = Response("execute", c, w, 400, execute_rejection(get_workflow(w)))
            /\ UNCHANGED <<workflows, callPc, callWf, executorCalls>>
       ELSE /\ workflows' = update_workflow_status(workflows, w, "executing")
            /\ executorCalls' = [executorCalls EXCEPT ![w] = @ + 1]
            /\ callPc' = [callPc EXCEPT ![c] = "awaiting"]
            /\ callWf' = [callWf EXCEPT ![c] = w]
            /\ resp' = Response("execute", c, w, 0, "dispatched")
    /\ UNCHANGED outsideController

\* execute_script returned: executed, audited, 200.
execute_returned(c) ==
    /\ callPc[c] = "awaiting"
    /\ workflows' = update_workflow_status(workflows, callWf[c], "executed")
    /\ audit' = add_audit(callWf[c], "executed", c)
    /\ terminalEntries' = [terminalEntries EXCEPT ![callWf[c]] = @ + 1]
    /\ resp' = Response("execute", c, callWf[c], 200, "Workflow executed")
    /\ callPc' = [callPc EXCEPT ![c] = "idle"]
    /\ callWf' = [callWf EXCEPT ![c] = NoWf]
    /\ UNCHANGED <<now, executorCalls, reexecVars, depVars, approveVars>>
    /\ UNCHANGED outsideController

\* execute_raised without the writes of its `except Exception` branch: the
\* call ends and the status stays as it was.
execute_raised_unmarked(c) ==
    /\ callPc[c] = "awaiting"
    /\ resp' = Response("execute", c, callWf[c], 500, "execution failed")
    /\ callPc' = [callPc EXCEPT ![c] = "idle"]
    /\ callWf' = [callWf EXCEPT ![c] = NoWf]
    /\ UNCHANGED <<now, workflows, audit, terminalEntries, executorCalls,
                   reexecVars, depVars, approveVars>>
    /\ UNCHANGED outsideController

\* execute_script raised: failed, audited, the exception is re-raised.
execute_raised(c) ==
    /\ callPc[c] = "awaiting"
    /\ workflows' = update_workflow_status(workflows, callWf[c], "failed")
    /\ audit' = add_audit(callWf[c], "execution_failed", c)
    /\ terminalEntries' = [terminalEntries EXCEPT ![callWf[c]] = @ + 1]
    /\ resp' = Response("execute", c, callWf[c], 500, "execution failed")
    /\ callPc' = [callPc EXCEPT ![c] = "idle"]
    /\ callWf' = [callWf EXCEPT ![c] = NoWf]
    /\ UNCHANGED <<now, executorCalls, reexecVars, depVars, approveVars>>
    /\ UNCHANGED outsideController

\* The wall clock advances.
Tick ==
    /\ now < MaxTime
    /\ now' = now + 1
    /\ UNCHANGED <<engineVars, reexecVars, depVars, approveVars, resp>>
    /\ UNCHANGED outsideController

\* ------------------------------------------------ re-execution approval
\* create_execution_approval_request: a new pending request row.
create_execution_approval_request(w, requester) ==
    Append(reexecRequests, [workflow_id |-> w, requester |-> requester, status |-> "pending"])

\* approve_execution_request: the request becomes approved and a token bound
\* to its workflow is minted, in one transaction.
approve_execution_request(request_id) ==
    [reexecRequests EXCEPT ![request_id].status = "approved"]

mint_execution_token(request_id) ==
    Append(executionTokens, [workflow_id |-> reexecRequests[request_id].workflow_id,
                             expires_at |-> now + TokenTTL,
                             used |-> FALSE,
                             used_by |-> "-"])

\* POST /workflows/{id}/reexec/request
request_reexecution(u, w) ==
    /\ UNCHANGED <<engineVars, depVars, approveVars, now, executionTokens>>
    /\ IF ~workflow_exists(w)
       THEN /\ resp' = Response("reexec_request", u, w, 404, "Workflow not found")
            /\ UNCHANGED reexecRequests
       ELSE /\ Len(reexecRequests) < MaxRequests
            /\ reexecRequests' = create_execution_approval_request(w, u)
            /\ resp' = after_send_email(
                          Response("reexec_request", u, w, 200, "Approval request created"))
    /\ UNCHANGED outsideController

\* POST /workflows/{id}/reexec/approve, with an approver JWT
approve_reexecution(u, w, request_id) ==
    /\ UNCHANGED <<engineVars, depVars, approveVars, now>>
    /\ IF request_id \notin DOMAIN reexecRequests
       THEN /\ resp' = Response("reexec_approve", u, w, 404, "Approval request not found")
            /\ UNCHANGED reexecVars
       ELSE IF reexecRequests[request_id].workflow_id # w
       THEN /\ resp' = Response("reexec_approve", u, w, 400, "Mismatched workflow")
            /\ UNCHANGED reexecVars
       ELSE IF reexecRequests[request_id].status # "pending"
       THEN /\ resp' = Response("reexec_approve", u, w, 400, "Request not pending")
            /\ UNCHANGED reexecVars
       ELSE /\ reexecRequests' = approve_execution_request(request_id)
            /\ executionTokens' = mint_execution_token(request_id)
            /\ resp' = after_send_email(
                          Response("reexec_approve", u, w, 200, "Approved and token issued"))
    /\ UNCHANGED outsideController

\* ------------------------------------------ require_execution_token._dep
get_execution_token_by_value(t) == t \in DOMAIN executionTokens

\* The expiry test of _dep.  Its `raise HTTPException(403, "Token expired")`
\* stands inside the `try` whose `except Exception` logs and goes on, and
\* HTTPException is an Exception: the test never rejects.
expiry_check_rejects(row) ==
    LET raised == row.expires_at < now
        caught == raised
    IN raised /\ ~caught

\* mark_execution_token_used: compare-and-set on `used`.
mark_execution_token_used_ok(t) == ~executionTokens[t].used

mark_execution_token_used(t, username) ==
    [executionTokens EXCEPT ![t].used = TRUE, ![t].used_by = username]

\* _dep up to its expiry test: the header, the lookup, the checks of the row read.
dep_check(c, u, w, t) ==
    /\ depPc[c] = "idle"
    /\ UNCHANGED <<engineVars, reexecVars, approveVars, now, admissions>>
    /\ IF t = NoToken
       THEN /\ resp' = Response("token_dep", c, w, 403, "Execution token required")
            /\ UNCHANGED <<depPc, depArgs>>
       ELSE IF ~get_execution_token_by_value(t)
       THEN /\ resp' = Response("token_dep", c, w, 403, "Invalid execution token")
            /\ UNCHANGED <<depPc, depArgs>>
       ELSE IF executionTokens[t].workflow_id # w
       THEN /\ resp' = Response("token_dep", c, w, 403, "Token not valid for this workflow")
            /\ UNCHANGED <<depPc, depArgs>>
       ELSE IF executionTokens[t].used
       THEN /\ resp' = Response("token_dep", c, w, 403, "Token already used")
            /\ UNCHANGED <<depPc, depArgs>>
       ELSE IF expiry_check_rejects(executionTokens[t])
       THEN /\ resp' = Response("token_dep", c, w, 403, "Token expired")
            /\ UNCHANGED <<depPc, depArgs>>
       ELSE /\ depPc' = [depPc EXCEPT ![c] = "checked"]
            /\ depArgs' = [depArgs EXCEPT ![c] =
                   [user |-> u, workflow_id |-> w, token |-> t, checked_at |-> now]]
            /\ resp' = Response("token_dep", c, w, 0, "checked")
    /\ UNCHANGED outsideController

\* dep_consume with the answer of mark_execution_token_used ignored.
dep_consume_ignoring_ok(c) ==
    /\ depPc[c] = "checked"
    /\ UNCHANGED <<engineVars, reexecRequests, approveVars, now>>
    /\ depPc' = [depPc EXCEPT ![c] = "idle"]
    /\ depArgs' = [depArgs EXCEPT ![c] = NoArgs]
    /\ executionTokens' = mark_execution_token_used(depArgs[c].token, depArgs[c].user)
    /\ admissions' = [admissions EXCEPT ![depArgs[c].token] = @ + 1]
    /\ resp' = Response("token_dep", c, depArgs[c].workflow_id, 200, "admitted")
    /\ UNCHANGED outsideController

\* _dep from mark_execution_token_used on.
dep_consume(c) ==
    /\ depPc[c] = "checked"
    /\ UNCHANGED <<engineVars, reexecRequests, approveVars, now>>
    /\ depPc' = [depPc EXCEPT ![c] = "idle"]
    /\ depArgs' = [depArgs EXCEPT ![c] = NoArgs]
    /\ IF mark_execution_token_used_ok(depArgs[c].token)
       THEN /\ executionTokens' = mark_execution_token_used(depArgs[c].token, depArgs[c].user)
            /\ admissions' = [admissions EXCEPT ![depArgs[c].token] = @ + 1]
            /\ resp' = Response("token_dep", c, depArgs[c].workflow_id, 200, "admitted")
       ELSE /\ resp' = Response("token_dep", c, depArgs[c].workflow_id, 403,
                                "Token could not be consumed")
            /\ UNCHANGED <<executionTokens, admissions>>
    /\ UNCHANGED outsideController


\* ------------------------------------------------------ proxy: Router.route
\* Router.route: the first backend of the sorted list whose path_prefix the
\* path starts with; else the default backend, which config.backends may not
\* hold; else nothing.  `found` says a BackendConfig was returned.
route(path) ==
    LET hits == {i \in DOMAIN router :
                    StartsWith(path, config.backends[router[i]].path_prefix)}
    IN IF hits # {}
       THEN [bid |-> router[CHOOSE i \in hits : \A j \in hits : i <= j], found |-> TRUE]
       ELSE IF config.default_backend # NoBackend
       THEN [bid |-> config.default_backend,
             found |-> config.default_backend \in DOMAIN config.backends]
       ELSE [bid |-> NoBackend, found |-> FALSE]

\* ------------------------------------------------------- proxy: AuthManager
\* extract_cert_user that makes a user of whatever the TLS layer hands it.
extract_cert_user_any(cert) == [cn |-> cert, auth_method |-> "smartcard"]

extract_cert_user(cert) ==
    IF cert = NoCert THEN NoUser ELSE [cn |-> cert, auth_method |-> "smartcard"]

\* verify_ntlm: a Type-3 message yields the user it names; a Type-1 message,
\* any other type and bytes that do not parse yield None.
verify_ntlm(authorization) ==
    IF authorization.kind = "type3"
    THEN [cn |-> authorization.username, auth_method |-> "ntlm"]
    ELSE NoUser

\* The test of get_session without its comparison of times.
session_live_unexpiring(sid) == sid \in DOMAIN sessions

\* The test of get_session: the session exists and is younger than
\* session_timeout.
session_live(sid) ==
    /\ sid \in DOMAIN sessions
    /\ now - sessions[sid].created < config.session_timeout

\* get_session: what it returns, and the store it leaves.
get_session(sid) ==
    IF session_live(sid)
    THEN [cn |-> sessions[sid].cn, auth_method |-> sessions[sid].auth_method]
    ELSE NoUser

get_session_store(sid) ==
    IF session_live(sid) THEN sessions
    ELSE [s \in DOMAIN sessions \ {sid} |-> sessions[s]]

Reply(op, k, req, status, www_authenticate, keep_alive, bid, contacted, forwarded, user) ==
    [op |-> op, conn |-> k, req |-> req, status |-> status, www_authenticate |-> www_authenticate,
     keep_alive |-> keep_alive, bid |-> bid, contacted |-> contacted,
     forwarded |-> forwarded, user |-> user]

\* AuthManager.create_session(user), sid being the fresh token_urlsafe value.
create_session(sid, user) ==
    /\ sid \notin DOMAIN sessions
    /\ sessions' = sessions @@ (sid :> [cn |-> user.cn, auth_method |-> user.auth_method,
                                        created |-> now])
    /\ presp' = [op |-> "create_session", sid |-> sid, user |-> user]
    /\ UNCHANGED <<outsideProxy, now, config, router, conn>>

\* AuthManager.get_session(sid), called on its own.
get_session_call(sid) ==
    /\ sessions' = get_session_store(sid)
    /\ presp' = [op |-> "get_session", sid |-> sid, user |-> get_session(sid),
                 removed |-> sid \in DOMAIN sessions /\ ~session_live(sid)]
    /\ UNCHANGED <<outsideProxy, now, config, router, conn>>

\* ------------------------------------------------------ proxy: ProxyServer
\* asyncio.start_server accepts a client connection.
accept(k) ==
    /\ conn[k] = "closed"
    /\ conn' = [conn EXCEPT ![k] = "open"]
    /\ UNCHANGED <<outsideProxy, now, config, router, sessions, presp>>

\* ProxyServer.handle: one request read from connection k and served.  Every
\* way out of the coroutine passes its `finally: writer.close()`.
\* backend_up says whether open_connection to the backend succeeds.
handle(k, req, backend_up) ==
    /\ conn[k] = "open"
    /\ conn' = [conn EXCEPT ![k] = "closed"]
    /\ UNCHANGED <<outsideProxy, now, config, router>>
    /\ \E r \in {route(req.path)} :
       IF ~r.found
       THEN /\ presp' = Reply("handle", k, req, 404, "", FALSE, NoBackend, FALSE, FALSE, NoUser)
            /\ UNCHANGED sessions
       ELSE
       LET backend == config.backends[r.bid]
           cert_user == IF backend.auth_required
                        THEN extract_cert_user(req.cert) ELSE NoUser
           fallback == backend.auth_required /\ cert_user = NoUser /\ config.ntlm_enabled
           looked_up == fallback /\ req.cookie # NoSid
           session_user == IF looked_up THEN get_session(req.cookie) ELSE NoUser
           is_ntlm == req.authorization.kind \in {"type1", "type3", "garbage"}
           ntlm_user == IF fallback /\ session_user = NoUser /\ is_ntlm
                        THEN verify_ntlm(req.authorization) ELSE NoUser
       IN
       /\ sessions' = IF looked_up THEN get_session_store(req.cookie) ELSE sessions
       /\ \E user \in {IF cert_user # NoUser THEN cert_user
                       ELSE IF session_user # NoUser THEN session_user
                       ELSE ntlm_user} :
          IF ~backend.auth_required
          \* user is None and the log line `user.get('cn', 'unknown')` raises:
          \* the outer `except Exception` logs, nothing is answered.
          THEN presp' = Reply("handle", k, req, 0, "", FALSE, r.bid, FALSE, FALSE, NoUser)
          ELSE IF user = NoUser /\ fallback /\ is_ntlm
          THEN presp' = Reply("handle", k, req, 401, "NTLM challenge", TRUE, r.bid,
                              FALSE, FALSE, NoUser)
          ELSE IF user = NoUser /\ fallback
          THEN presp' = Reply("handle", k, req, 401, "NTLM", TRUE, r.bid, FALSE, FALSE, NoUser)
          ELSE IF user = NoUser
          THEN presp' = Reply("handle", k, req, 401, "", FALSE, r.bid, FALSE, FALSE, NoUser)
          ELSE IF ~backend_up
          THEN presp' = Reply("handle", k, req, 502, "", FALSE, r.bid, TRUE, FALSE, user)
          ELSE presp' = Reply("handle", k, req, 200, "", FALSE, r.bid, TRUE, TRUE, user)

\* ------------------------------------------------------------ agents routes
AgentResponse(op, who, name, code, detail) ==
    [op |-> op, who |-> who, agent_name |-> name, code |-> code, detail |-> detail,
     agents |-> <<>>, count |-> 0]

\* get_user_allowed_environments: the environments granted to the user.
get_user_allowed_environments(user) ==
    IF user \in DOMAIN grants THEN grants[user] ELSE {}

user_can_access_environment(allowed_environments, target_environment) ==
    IF allowed_environments = {} THEN FALSE
    ELSE IF "*" \in allowed_environments THEN TRUE
    ELSE target_environment \in allowed_environments

\* db.get_agent_by_host_port: the name of the agent registered at host:port,
\* NoAgent when there is none.
get_agent_by_host_port(host, port) ==
    IF \E a \in DOMAIN agents : agents[a].host = host /\ agents[a].port = port
    THEN CHOOSE a \in DOMAIN agents : agents[a].host = host /\ agents[a].port = port
    ELSE NoAgent

\* host_port_conflict with the test made for names already registered only.
host_port_conflict_existing_only(agent_name, host, port) ==
    LET existing_host_port == get_agent_by_host_port(host, port) IN
    IF agent_name \in DOMAIN agents
    THEN IF existing_host_port # NoAgent /\ existing_host_port # agent_name
         THEN existing_host_port ELSE NoAgent
    ELSE NoAgent

\* The two 409 tests of register_agent: the agent holding host:port when the
\* call must be refused, NoAgent otherwise.
host_port_conflict(agent_name, host, port) ==
    LET existing_host_port == get_agent_by_host_port(host, port) IN
    IF agent_name \in DOMAIN agents
    THEN IF existing_host_port # NoAgent /\ existing_host_port # agent_name
         THEN existing_host_port ELSE NoAgent
    ELSE existing_host_port

\* db.register_agent: INSERT ... ON CONFLICT(agent_name) DO UPDATE.
db_register_agent(agent_name, host, port, status, ssl_enabled, environment) ==
    [a \in DOMAIN agents \cup {agent_name} |->
        IF a = agent_name
        THEN [host |-> host, port |-> port, status |-> status,
              ssl_enabled |-> ssl_enabled, environment |-> environment]
        ELSE agents[a]]

\* POST /agents
register_agent(u, agent_name, host, port, status, ssl_enabled, environment) ==
    /\ IF ~user_can_access_environment(get_user_allowed_environments(u), environment)
       THEN /\ aresp' = AgentResponse("register", u, agent_name, 403, environment)
            /\ UNCHANGED agents
       ELSE IF host_port_conflict(agent_name, host, port) # NoAgent
       THEN /\ aresp' = AgentResponse("register", u, agent_name, 409,
                                      host_port_conflict(agent_name, host, port))
            /\ UNCHANGED agents
       ELSE /\ agents' = db_register_agent(agent_name, host, port, status, ssl_enabled,
                                              environment)
            /\ aresp' = AgentResponse("register", u, agent_name, 200,
                                      "Agent registered successfully")
    /\ UNCHANGED <<outsideAgents, grants>>

\* update_agent_status with access tested for the current environment only.
update_agent_status_current_only(u, agent_name, status, ssl_enabled, environment) ==
    /\ IF agent_name \notin DOMAIN agents
       THEN /\ aresp' = AgentResponse("update", u, agent_name, 404, "not found")
            /\ UNCHANGED agents
       ELSE IF ~user_can_access_environment(get_user_allowed_environments(u),
                                            agents[agent_name].environment)
       THEN /\ aresp' = AgentResponse("update", u, agent_name, 403,
                                      agents[agent_name].environment)
            /\ UNCHANGED agents
       ELSE /\ agents' = [agents EXCEPT
                 ![agent_name].environment = IF environment # NoAgent THEN environment ELSE @,
                 ![agent_name].status = IF status # NoAgent THEN status ELSE @,
                 ![agent_name].ssl_enabled =
                     IF ssl_enabled # NoAgent THEN ssl_enabled = "true" ELSE @]
            /\ aresp' = AgentResponse("update", u, agent_name, 200, "updated")
    /\ UNCHANGED <<outsideAgents, grants>>

\* PUT /agents/{agent_name}/status with a new status, a new TLS flag and a new
\* environment (NoAgent standing for a field the body leaves out).
update_agent_status(u, agent_name, status, ssl_enabled, environment) ==
    /\ IF agent_name \notin DOMAIN agents
       THEN /\ aresp' = AgentResponse("update", u, agent_name, 404, "not found")
            /\ UNCHANGED agents
       ELSE IF ~user_can_access_environment(get_user_allowed_environments(u),
                                            agents[agent_name].environment)
       THEN /\ aresp' = AgentResponse("update", u, agent_name, 403,
                                      agents[agent_name].environment)
            /\ UNCHANGED agents
       ELSE IF environment # NoAgent
               /\ ~user_can_access_environment(get_user_allowed_environments(u), environment)
       THEN /\ aresp' = AgentResponse("update", u, agent_name, 403, environment)
            /\ UNCHANGED agents
       ELSE /\ agents' = [agents EXCEPT
                 ![agent_name].environment = IF environment # NoAgent THEN environment ELSE @,
                 ![agent_name].status = IF status # NoAgent THEN status ELSE @,
                 ![agent_name].ssl_enabled =
                     IF ssl_enabled # NoAgent THEN ssl_enabled = "true" ELSE @]
            /\ aresp' = AgentResponse("update", u, agent_name, 200, "updated")
    /\ UNCHANGED <<outsideAgents, grants>>

\* DELETE /agents/{agent_name}
deregister_agent(u, agent_name) ==
    /\ IF agent_name \notin DOMAIN agents
       THEN /\ aresp' = AgentResponse("deregister", u, agent_name, 404, "not found")
            /\ UNCHANGED agents
       ELSE IF ~user_can_access_environment(get_user_allowed_environments(u),
                                            agents[agent_name].environment)
       THEN /\ aresp' = AgentResponse("deregister", u, agent_name, 403,
                                      agents[agent_name].environment)
            /\ UNCHANGED agents
       ELSE /\ agents' = [a \in DOMAIN agents \ {agent_name} |-> agents[a]]
            /\ aresp' = AgentResponse("deregister", u, agent_name, 200, "deleted")
    /\ UNCHANGED <<outsideAgents, grants>>

\* A list response: the rows returned and their count.
ListResponse(op, who, code, detail, rows) ==
    [AgentResponse(op, who, NoAgent, code, detail) EXCEPT
        !.agents = rows, !.count = Cardinality(DOMAIN rows)]

Rows(names) == [a \in names |-> agents[a]]

\* db.list_agents_with_status(limit, status): the result sets the query can
\* give, the agents of that status (all of them for no status), at most
\* `limit` of them.
list_agents_with_status(limit, status) ==
    LET matching == {a \in DOMAIN agents : status = NoAgent \/ agents[a].status = status}
    IN {Rows(names) : names \in
           {n \in SUBSET matching :
               IF limit = NoLimit \/ Cardinality(matching) <= limit
               THEN n = matching ELSE Cardinality(n) = limit}}

\* filter_agents_by_environment with every row let through.
filter_agents_by_environment_unfiltered(rows, allowed_environments) == rows

filter_agents_by_environment(rows, allowed_environments) ==
    IF allowed_environments = {} THEN <<>>
    ELSE IF "*" \in allowed_environments THEN rows
    ELSE Rows({a \in DOMAIN rows : rows[a].environment \in allowed_environments})

\* GET /agents, with the optional limit, status and environment of the query
\* (NoLimit, NoAgent for the ones left out) and the rows the query returned.
list_agents(u, limit, status, environment, rows) ==
    /\ rows \in list_agents_with_status(limit, status)
    /\ LET allowed_environments == get_user_allowed_environments(u)
           filtered_agents == filter_agents_by_environment(rows, allowed_environments)
       IN IF allowed_environments = {}
          THEN aresp' = ListResponse("list", u, 200, "No environment access configured", <<>>)
          ELSE IF environment # NoAgent
                  /\ ~user_can_access_environment(allowed_environments, environment)
          THEN aresp' = AgentResponse("list", u, NoAgent, 403, environment)
          ELSE aresp' = ListResponse("list", u, 200, "",
                   IF environment # NoAgent
                   THEN Rows({a \in DOMAIN filtered_agents :
                                 filtered_agents[a].environment = environment})
                   ELSE filtered_agents)
    /\ UNCHANGED <<outsideAgents, grants, agents>>

\* db.get_user_by_username: the users table holds the principals.
get_user_by_username(username) == username \in Principals

\* INSERT OR REPLACE INTO user_agent_access (user_id, environment, ...).
insert_user_agent_access(username, environment) ==
    [x \in DOMAIN grants \cup {username} |->
        IF x = username
        THEN get_user_allowed_environments(username) \cup {environment}
        ELSE grants[x]]

\* DELETE FROM user_agent_access WHERE user_id = ? AND environment = ?.
delete_user_agent_access(username, environment) ==
    [x \in DOMAIN grants |-> IF x = username THEN grants[x] \ {environment} ELSE grants[x]]

\* grant_environment_access without the test reserved to superadmins.
grant_environment_access_no_superadmin_test(u, username, environment) ==
    /\ LET admin_environments == get_user_allowed_environments(u) IN
       IF ~get_user_by_username(username)
       THEN /\ aresp' = AgentResponse("grant", u, username, 404, environment)
            /\ UNCHANGED grants
       ELSE IF /\ "*" \notin admin_environments /\ environment # "*"
               /\ ~user_can_access_environment(admin_environments, environment)
       THEN /\ aresp' = AgentResponse("grant", u, username, 403, environment)
            /\ UNCHANGED grants
       ELSE /\ grants' = insert_user_agent_access(username, environment)
            /\ aresp' = AgentResponse("grant", u, username, 200, environment)
    /\ UNCHANGED <<outsideAgents, agents>>

\* POST /agents/access/grant
grant_environment_access(u, username, environment) ==
    /\ LET admin_environments == get_user_allowed_environments(u) IN
       IF ~get_user_by_username(username)
       THEN /\ aresp' = AgentResponse("grant", u, username, 404, environment)
            /\ UNCHANGED grants
       ELSE IF /\ "*" \notin admin_environments /\ environment # "*"
               /\ ~user_can_access_environment(admin_environments, environment)
       THEN /\ aresp' = AgentResponse("grant", u, username, 403, environment)
            /\ UNCHANGED grants
       ELSE IF environment = "*" /\ "*" \notin admin_environments
       THEN /\ aresp' = AgentResponse("grant", u, username, 403, "Only superadmins")
            /\ UNCHANGED grants
       ELSE /\ grants' = insert_user_agent_access(username, environment)
            /\ aresp' = AgentResponse("grant", u, username, 200, environment)
    /\ UNCHANGED <<outsideAgents, agents>>

\* DELETE /agents/access/revoke
revoke_environment_access(u, username, environment) ==
    /\ LET admin_environments == get_user_allowed_environments(u) IN
       IF ~get_user_by_username(username)
       THEN /\ aresp' = AgentResponse("revoke", u, username, 404, environment)
            /\ UNCHANGED grants
       ELSE IF "*" \notin admin_environments /\ environment = "*"
       THEN /\ aresp' = AgentResponse("revoke", u, username, 403, "Only superadmins")
            /\ UNCHANGED grants
       ELSE IF /\ "*" \notin admin_environments
               /\ ~user_can_access_environment(admin_environments, environment)
       THEN /\ aresp' = AgentResponse("revoke", u, username, 403, environment)
            /\ UNCHANGED grants
       ELSE /\ grants' = IF username \in DOMAIN grants
                         THEN delete_user_agent_access(username, environment)
                         ELSE grants
            /\ aresp' = AgentResponse("revoke", u, username, 200, environment)
    /\ UNCHANGED <<outsideAgents, agents>>

\* GET /agents/all. The handler reads `updated_agents`, which no statement
\* binds, when a status is given, and returns `agents_list`, which only that
\* branch assigns, so both branches end in an uncaught exception (500).
list_all_agents(u, limit, status, rows) ==
    /\ rows \in list_agents_with_status(limit, status)
    /\ IF status # NoAgent
       THEN aresp' = AgentResponse("list_all", u, NoAgent, 500, "NameError: updated_agents")
       ELSE aresp' = AgentResponse("list_all", u, NoAgent, 500,
                                   "UnboundLocalError: agents_list")
    /\ UNCHANGED <<outsideAgents, grants, agents>>

\* ------------------------------------------------- deps: normalize_identity
\* str.strip() for the blank.
RECURSIVE lstrip(_)
lstrip(str) == IF str # <<>> /\ Head(str) = Blank THEN lstrip(Tail(str)) ELSE str
RECURSIVE rstrip(_)
rstrip(str) ==
    IF str # <<>> /\ str[Len(str)] = Blank THEN rstrip(SubSeq(str, 1, Len(str) - 1)) ELSE str
strip(str) == rstrip(lstrip(str))

\* s[1:-1]
Inner(str) == SubSeq(str, 2, Len(str) - 1)
Quoted(str, q) == str # <<>> /\ Head(str) = q /\ str[Len(str)] = q

\* The text matches \s*\([^)]*\)\s* from its first to its last character.
IsAnnotation(str) ==
    LET t == strip(str) IN
    /\ Len(t) >= 2
    /\ Head(t) = "(" /\ t[Len(t)] = ")"
    /\ \A i \in 2..(Len(t) - 1) : t[i] # ")"

\* re.sub(r"\s*\([^)]*\)\s*$", "", s): the leftmost suffix that is an annotation
\* is cut off.
remove_trailing_parentheses(str) ==
    LET starts == {i \in 1..Len(str) : IsAnnotation(SubSeq(str, i, Len(str)))} IN
    IF starts = {} THEN str
    ELSE SubSeq(str, 1, (CHOOSE i \in starts : \A j \in starts : i <= j) - 1)

\* The index of the first occurrence of a character, 0 when there is none.
Find(str, ch) ==
    IF \E i \in 1..Len(str) : str[i] = ch
    THEN CHOOSE i \in 1..Len(str) : str[i] = ch /\ \A j \in 1..(i - 1) : str[j] # ch
    ELSE 0

\* s.split("\\", 1)[1].strip() when the string holds a backslash.
after_backslash(str) ==
    IF Find(str, Backslash) # 0
    THEN strip(SubSeq(str, Find(str, Backslash) + 1, Len(str)))
    ELSE str

\* s.split("@", 1)[0] when the string holds an at sign.
before_at(str) ==
    IF Find(str, "@") # 0 THEN SubSeq(str, 1, Find(str, "@") - 1) ELSE str

\* re.sub(r"^[A-Za-z]\\", "", s).strip()
remove_letter_prefix(str) ==
    IF Len(str) >= 2 /\ str[1] = Letter /\ str[2] = Backslash
    THEN strip(SubSeq(str, 3, Len(str)))
    ELSE strip(str)

\* re.sub(r"\s+", " ", s)
RECURSIVE collapse_spaces(_)
collapse_spaces(str) ==
    IF Len(str) < 2 THEN str
    ELSE IF str[1] = Blank /\ str[2] = Blank THEN collapse_spaces(Tail(str))
    ELSE <<Head(str)>> \o collapse_spaces(Tail(str))

normalize_identity(raw) ==
    IF raw = <<>> THEN <<>>
    ELSE LET stripped == strip(raw)
             unquoted == IF Quoted(stripped, DoubleQuote) \/ Quoted(stripped, SingleQuote)
                         THEN strip(Inner(stripped)) ELSE stripped
             unannotated == strip(remove_trailing_parentheses(unquoted))
             undomained == after_backslash(unannotated)
             local == before_at(undomained)
             unprefixed == remove_letter_prefix(local)
         IN collapse_spaces(unprefixed)

\* One application of normalize_identity to the string held.
normalize_call ==
    /\ identity.applied < 2
    /\ identity' = [identity EXCEPT !.normalized = normalize_identity(identity.normalized),
                                    !.applied = @ + 1]
    /\ UNCHANGED <<controllerVars, proxyVars, now, agentVars, dresp, reportVars, mailer, tunnel>>

\* ------------------------------------------------------------------- deps
\* get_runtime_user_from_request: the principal built from the proxy's
\* headers, its role merged from the users table; NoPrincipal for no header.
get_runtime_user_from_request(request) ==
    IF request.auth_user = "" THEN NoPrincipal
    ELSE [username |-> request.auth_user,
          role |-> IF request.auth_user \in DOMAIN UserRoles
                   THEN UserRoles[request.auth_user] ELSE None,
          auth_method |-> IF request.auth_method # "" THEN request.auth_method ELSE "proxy"]

\* verify_token: the status and the principal, proxy headers first, then
\* X-Admin-Token, then X-Agent-Token.
verify_token(request) ==
    LET user == get_runtime_user_from_request(request) IN
    IF user # NoPrincipal
    THEN [code |-> 200, user |-> user]
    ELSE IF request.admin_token # ""
    THEN IF request.admin_token \in DOMAIN Tokens /\ Tokens[request.admin_token].revoked # 1
         THEN [code |-> 200,
               user |-> [username |-> Tokens[request.admin_token].token_name,
                         role |-> Tokens[request.admin_token].role,
                         auth_method |-> "token"]]
         ELSE [code |-> 401, user |-> NoPrincipal]
    ELSE IF request.agent_token # ""
    THEN IF request.agent_token \in DOMAIN Tokens /\ Tokens[request.agent_token].revoked # 1
         THEN IF Tokens[request.agent_token].role # "agent"
              THEN [code |-> 403, user |-> NoPrincipal]
              ELSE [code |-> 200,
                    user |-> [username |-> Tokens[request.agent_token].token_name,
                              role |-> "agent", auth_method |-> "agent_token"]]
         ELSE [code |-> 401, user |-> NoPrincipal]
    ELSE [code |-> 401, user |-> NoPrincipal]

\* The auth methods require_admin trusts as admin.
TrustedMethods == {"proxy", "smartcard", "wna"}

\* The outcome of a dependency: the status, the principal returned and the
\* principal verify_token had given.
DepReply(op, request, code, user, verified) ==
    [op |-> op, request |-> request, code |-> code, user |-> user, verified |-> verified]

\* require_admin: what it returns or raises for the principal verify_token gave.
require_admin(request) ==
    /\ LET v == verify_token(request) IN
       IF v.code # 200
       THEN dresp' = DepReply("require_admin", request, v.code, NoPrincipal, NoPrincipal)
       ELSE IF v.user.role = "admin"
       THEN dresp' = DepReply("require_admin", request, 200, v.user, v.user)
       ELSE IF v.user.auth_method \in TrustedMethods
       THEN dresp' = DepReply("require_admin", request, 200,
                              [v.user EXCEPT !.role = "admin"], v.user)
       ELSE dresp' = DepReply("require_admin", request, 403, NoPrincipal, v.user)
    /\ UNCHANGED <<outsideDeps, identity>>

\* ---------------------------------------------------------------- reports
RunResponse(script_id, target, code, detail, run_id) ==
    [op |-> "run", script_id |-> script_id, target |-> target, code |-> code,
     detail |-> detail, run_id |-> run_id]

\* The first declared parameter that is required and not provided, None when
\* there is none.
missing_required(param_defs, provided_params) ==
    LET missing == {i \in DOMAIN param_defs :
                       param_defs[i].required /\ param_defs[i].name \notin provided_params}
    IN IF missing = {} THEN None
       ELSE param_defs[CHOOSE i \in missing : \A j \in missing : i <= j].name

\* run_report with the agent's status left untested.
run_report_any_status(user, script_id, target, provided_params, run_id) ==
    /\ IF script_id \notin DOMAIN report_scripts
       THEN /\ rresp' = RunResponse(script_id, target, 404, "script not found", None)
            /\ UNCHANGED <<report_runs, run_info, active_runs, task>>
       ELSE IF target \notin DOMAIN agents
       THEN /\ rresp' = RunResponse(script_id, target, 404, "agent not found", None)
            /\ UNCHANGED <<report_runs, run_info, active_runs, task>>
       ELSE IF missing_required(report_scripts[script_id].parameters, provided_params) # None
       THEN /\ rresp' = RunResponse(script_id, target, 400,
                  missing_required(report_scripts[script_id].parameters, provided_params),
                  None)
            /\ UNCHANGED <<report_runs, run_info, active_runs, task>>
       ELSE /\ run_id \notin DOMAIN report_runs
            /\ report_runs' = run_id :> [script_id |-> script_id, target_agent |-> target,
                                         status |-> "running", exit_code |-> NoExitCode,
                                         run_by |-> user, writes |-> 0] @@ report_runs
            /\ run_info' = run_id :> [script_id |-> script_id, target |-> target,
                                      status |-> "running", exit_code |-> NoExitCode,
                                      output |-> <<>>, subscribers |-> <<>>] @@ run_info
            /\ active_runs' = active_runs \cup {run_id}
            /\ task' = run_id :> NewTask @@ task
            /\ rresp' = RunResponse(script_id, target, 200, "running", run_id)
    /\ UNCHANGED <<outsideReports, agents, report_scripts, sockets, dispatched>>

\* POST /reports/run/{script_id}: the caller, the script, the body's target and
\* the names of the parameters it provides, and the run id drawn.
run_report(user, script_id, target, provided_params, run_id) ==
    /\ IF script_id \notin DOMAIN report_scripts
       THEN /\ rresp' = RunResponse(script_id, target, 404, "script not found", None)
            /\ UNCHANGED <<report_runs, run_info, active_runs, task>>
       ELSE IF target \notin DOMAIN agents
       THEN /\ rresp' = RunResponse(script_id, target, 404, "agent not found", None)
            /\ UNCHANGED <<report_runs, run_info, active_runs, task>>
       ELSE IF agents[target].status # "online"
       THEN /\ rresp' = RunResponse(script_id, target, 400, "agent not online", None)
            /\ UNCHANGED <<report_runs, run_info, active_runs, task>>
       ELSE IF missing_required(report_scripts[script_id].parameters, provided_params) # None
       THEN /\ rresp' = RunResponse(script_id, target, 400,
                  missing_required(report_scripts[script_id].parameters, provided_params),
                  None)
            /\ UNCHANGED <<report_runs, run_info, active_runs, task>>
       ELSE /\ run_id \notin DOMAIN report_runs
            /\ report_runs' = run_id :> [script_id |-> script_id, target_agent |-> target,
                                         status |-> "running", exit_code |-> NoExitCode,
                                         run_by |-> user, writes |-> 0] @@ report_runs
            /\ run_info' = run_id :> [script_id |-> script_id, target |-> target,
                                      status |-> "running", exit_code |-> NoExitCode,
                                      output |-> <<>>, subscribers |-> <<>>] @@ run_info
            /\ active_runs' = active_runs \cup {run_id}
            /\ task' = run_id :> NewTask @@ task
            /\ rresp' = RunResponse(script_id, target, 200, "running", run_id)
    /\ UNCHANGED <<outsideReports, agents, report_scripts, sockets, dispatched>>

\* The branch of execute_report taken for a reply of the agent.
error_branch(message, status) ==
    <<BroadcastOutput(message), BroadcastComplete(status, -1), UpdateRow(status, -1), Sleep>>

branch_of(reply) ==
    IF reply.kind = "200"
    THEN LET status == IF reply.exit_code = 0 THEN "completed" ELSE "failed" IN
         (IF reply.stdout # "" THEN <<BroadcastOutput(reply.stdout)>> ELSE <<>>)
         \o (IF reply.stderr # "" THEN <<BroadcastOutput("[STDERR] err")>> ELSE <<>>)
         \o <<SetStatus(status, reply.exit_code),
              BroadcastComplete(status, reply.exit_code),
              UpdateRow(status, reply.exit_code), Sleep>>
    ELSE IF reply.kind = "timeout" THEN error_branch("[ERROR] Execution timeout", "timeout")
    ELSE IF reply.kind = "exception" THEN error_branch("[ERROR] exception", "failed")
    ELSE error_branch("[ERROR] Agent returned status 503", "failed")

\* The timeout and exception branches run in an except clause; the 200 and
\* the other-status branches run in the try body.
in_except_clause(reply) == reply.kind \in {"timeout", "exception"}

Range(seq) == {seq[i] : i \in DOMAIN seq}
Without(seq, gone) == SelectSeq(seq, LAMBDA x : x \notin gone)

\* run_info['subscribers'].remove(ws) for each dead socket in turn: the list
\* left, and whether a remove found its socket missing (ValueError).
remove_dead(subscribers, dead) ==
    LET missing == {i \in DOMAIN dead : dead[i] \notin Range(subscribers)}
        upto == IF missing = {} THEN Len(dead)
                ELSE (CHOOSE i \in missing : \A j \in missing : i <= j) - 1
    IN [subscribers |-> Without(subscribers, {dead[i] : i \in 1..upto}),
        raised |-> missing # {}]

\* execute_report from where it stands to its next suspension: a send_text
\* that went through, or the sleep of its finally clause. c holds the task,
\* the run's dict, its row and the sockets.
RECURSIVE run_to_suspension(_)
run_to_suspension(c) ==
    LET ins == c.t.prog[c.t.ip]
        subs == c.info.subscribers
    IN
    IF ins.op = "sleep" THEN [c EXCEPT !.t.pc = "sleeping"]
    ELSE IF ins.op = "set"
    THEN run_to_suspension([c EXCEPT !.info.status = ins.status,
                                     !.info.exit_code = ins.exit_code,
                                     !.t.ip = @ + 1])
    ELSE IF ins.op = "persist"
    THEN run_to_suspension([c EXCEPT !.row.status = ins.status,
                                     !.row.exit_code = ins.exit_code,
                                     !.row.writes = @ + 1,
                                     !.t.ip = @ + 1])
    ELSE IF ~c.t.started
    THEN run_to_suspension([c EXCEPT
             !.info.output = IF ins.op = "out" THEN Append(@, ins.data) ELSE @,
             !.t.started = TRUE, !.t.idx = 1, !.t.dead = <<>>])
    ELSE IF c.t.idx <= Len(subs)
    THEN LET ws == subs[c.t.idx] IN
         IF c.socks[ws].client = "open"
         THEN [c EXCEPT !.socks[ws].recv =
                            Append(@, IF ins.op = "out" THEN OutputFrame(ins.data)
                                      ELSE CompleteFrame(ins.status, ins.exit_code)),
                        !.t.idx = @ + 1, !.t.pc = "yielded"]
         ELSE run_to_suspension([c EXCEPT
                  !.t.dead = IF ins.op = "out" THEN Append(@, ws) ELSE @,
                  !.t.idx = @ + 1])
    ELSE LET left == remove_dead(subs, c.t.dead) IN
         IF ~left.raised
         THEN run_to_suspension([c EXCEPT !.info.subscribers = left.subscribers,
                                          !.t.started = FALSE, !.t.ip = @ + 1])
         ELSE IF ~c.t.handling
         THEN run_to_suspension([c EXCEPT !.info.subscribers = left.subscribers,
                                          !.t.started = FALSE, !.t.ip = 1,
                                          !.t.handling = TRUE,
                                          !.t.prog = error_branch("[ERROR] exception", "failed")])
         ELSE run_to_suspension([c EXCEPT !.info.subscribers = left.subscribers,
                                          !.t.started = FALSE, !.t.ip = 1,
                                          !.t.prog = <<Sleep>>])

\* The state after the task of run r ran from configuration t to its next
\* suspension.
task_runs(r, t) ==
    \E c \in {run_to_suspension([t |-> t, info |-> run_info[r], row |-> report_runs[r],
                                  socks |-> sockets])} :
        /\ task' = [task EXCEPT ![r] = c.t]
        /\ run_info' = [run_info EXCEPT ![r] = c.info]
        /\ report_runs' = [report_runs EXCEPT ![r] = c.row]
        /\ sockets' = c.socks

\* execute_report starts: it finds its run and posts the command to the agent.
execute_report(r) ==
    /\ r \in DOMAIN task /\ task[r].pc = "created"
    /\ task' = [task EXCEPT ![r].pc = "posted"]
    /\ dispatched' = dispatched \cup {r}
    /\ UNCHANGED <<outsideReports, agents, report_scripts, report_runs, run_info, active_runs,
                   sockets, rresp>>

\* The post returns or raises, and execute_report goes on to its next suspension.
agent_replies(r, reply) ==
    /\ r \in DOMAIN task /\ task[r].pc = "posted"
    /\ task_runs(r, [task[r] EXCEPT !.pc = "running", !.reply = reply,
                                    !.prog = branch_of(reply), !.ip = 1,
                                    !.handling = in_except_clause(reply)])
    /\ UNCHANGED <<outsideReports, agents, report_scripts, active_runs, dispatched, rresp>>

\* A send_text of the task returns and execute_report goes on.
execute_report_resumes(r) ==
    /\ r \in DOMAIN task /\ task[r].pc = "yielded"
    /\ task_runs(r, [task[r] EXCEPT !.pc = "running"])
    /\ UNCHANGED <<outsideReports, agents, report_scripts, active_runs, dispatched, rresp>>

\* The sleep of the finally clause is over: active_runs.pop(run_id, None).
execute_report_evicts(r) ==
    /\ r \in DOMAIN task /\ task[r].pc = "sleeping"
    /\ task' = [task EXCEPT ![r].pc = "done"]
    /\ active_runs' = active_runs \ {r}
    /\ UNCHANGED <<outsideReports, agents, report_scripts, report_runs, run_info, sockets,
                   dispatched, rresp>>

\* websocket_output from the replay position ridx to its next suspension: the
\* next buffered frame is sent, or, the buffer exhausted, the terminal frame
\* when the dict's status is terminal, and then the handler waits in
\* receive_text. A send to a client that is gone raises outside the try
\* statement, which ends the handler with the socket still subscribed.
replay(w, info, ridx) ==
    IF ridx <= Len(info.output)
    THEN IF sockets[w].client = "open"
         THEN [sockets[w] EXCEPT !.recv = Append(@, OutputFrame(info.output[ridx])),
                                 !.ridx = ridx + 1, !.pc = "replay"]
         ELSE [sockets[w] EXCEPT !.pc = "crashed"]
    ELSE IF info.status \in {"completed", "failed", "timeout"}
    THEN IF sockets[w].client = "open"
         THEN [sockets[w] EXCEPT
                  !.recv = Append(@, CompleteFrame(info.status,
                               IF info.exit_code = NoExitCode THEN -1 ELSE info.exit_code)),
                  !.ridx = ridx, !.pc = "listening"]
         ELSE [sockets[w] EXCEPT !.pc = "crashed"]
    ELSE [sockets[w] EXCEPT !.ridx = ridx, !.pc = "listening"]

\* A client connects to /reports/ws/{run_id} and the handler accepts it.
websocket_output(w, r) ==
    /\ sockets[w].pc = "new"
    /\ sockets' = [sockets EXCEPT ![w].pc = "accepted", ![w].run = r]
    /\ UNCHANGED <<outsideReports, agents, report_scripts, report_runs, run_info, active_runs,
                   task, dispatched, rresp>>

\* accept returned: the handler looks the run up, answers with the error frame
\* when it is not in active_runs, subscribes and starts the replay otherwise.
websocket_subscribes(w) ==
    /\ sockets[w].pc = "accepted"
    /\ LET r == sockets[w].run IN
       IF r \notin active_runs
       THEN /\ sockets' = [sockets EXCEPT
                   ![w].recv = IF sockets[w].client = "open" THEN Append(@, ErrorFrame) ELSE @,
                   ![w].pc = "closed"]
            /\ UNCHANGED run_info
       ELSE /\ run_info' = [run_info EXCEPT ![r].subscribers = Append(@, w)]
            /\ sockets' = [sockets EXCEPT
                   ![w] = [replay(w, run_info[r], 1) EXCEPT
                              !.late = report_runs[r].status \in TerminalRunStatuses]]
    /\ UNCHANGED <<outsideReports, agents, report_scripts, report_runs, active_runs, task,
                   dispatched, rresp>>

\* A send_text of the replay returned: the handler goes on with the buffer as
\* it is now.
websocket_replays(w) ==
    /\ sockets[w].pc = "replay"
    /\ sockets' = [sockets EXCEPT ![w] = replay(w, run_info[sockets[w].run], sockets[w].ridx)]
    /\ UNCHANGED <<outsideReports, agents, report_scripts, report_runs, run_info, active_runs,
                   task, dispatched, rresp>>

\* The client of a connected socket goes away.
client_disconnects(w) ==
    /\ sockets[w].pc \in {"accepted", "replay", "listening"}
    /\ sockets[w].client = "open"
    /\ sockets' = [sockets EXCEPT ![w].client = "gone"]
    /\ UNCHANGED <<outsideReports, agents, report_scripts, report_runs, run_info, active_runs,
                   task, dispatched, rresp>>

\* receive_text raises WebSocketDisconnect: the finally clause unsubscribes
\* the socket if the run is still in active_runs.
websocket_disconnected(w) ==
    /\ sockets[w].pc = "listening"
    /\ sockets[w].client = "gone"
    /\ sockets' = [sockets EXCEPT ![w].pc = "closed"]
    /\ LET r == sockets[w].run IN
       run_info' = IF r \in active_runs
                   THEN [run_info EXCEPT ![r].subscribers = Without(@, {w})]
                   ELSE run_info
    /\ UNCHANGED <<outsideReports, agents, report_scripts, report_runs, active_runs, task,
                   dispatched, rresp>>

\* ------------------------------------------------------- specifications
Create == \E w \in WorkflowIds, s \in ScriptIds, t \in TargetLists,
             r \in ReqLevels, ttl \in TTLs : create_workflow(Requestor, w, s, t, r, ttl)
Approve == \E u \in Users, w \in RequestIds, a \in Users, l \in Levels :
             approve_workflow(u, w, a, l)
Deny == \E u \in Users, w \in RequestIds : deny_workflow(u, w)
Execute == \E c \in Callers, w \in RequestIds : execute_workflow(c, w, NoToken)
ExecuteReturned == \E c \in Callers : execute_returned(c)
ExecuteRaised == \E c \in Callers : execute_raised(c)

Next ==
    \/ Create
    \/ Approve
    \/ Deny
    \/ Execute
    \/ ExecuteReturned
    \/ ExecuteRaised
    \/ Tick

Spec == Init /\ [][Next]_vars

\* The re-execution flow on a well-formed single-approval workflow.
CreateRunnable == \E w \in WorkflowIds :
                    create_workflow(Requestor, w, "disk_check", <<"A1">>, 1, 2)
ApproveOnce == \E w \in WorkflowIds : approve_workflow("alice", w, "alice", 1)
RequestReexec == \E w \in RequestIds : request_reexecution(Requestor, w)
ApproveReexec == \E w \in RequestIds, r \in 1..MaxRequests : approve_reexecution("alice", w, r)
ExecuteWithToken == \E c \in Callers, w \in RequestIds, t \in HeaderTokens :
                      execute_workflow(c, w, t)
\* Each connection presents its own principal.
PrincipalOf(c) == IF c = "c1" THEN "alice" ELSE "bob"
DepCheck == \E c \in Callers, w \in RequestIds, t \in HeaderTokens :
              dep_check(c, PrincipalOf(c), w, t)
DepConsume == \E c \in Callers : dep_consume(c)

NextReexec ==
    \/ CreateRunnable
    \/ ApproveOnce
    \/ ExecuteWithToken
    \/ ExecuteReturned
    \/ ExecuteRaised
    \/ RequestReexec
    \/ ApproveReexec
    \/ Tick

SpecReexec == Init /\ [][NextReexec]_vars

NextToken ==
    \/ CreateRunnable
    \/ RequestReexec
    \/ ApproveReexec
    \/ DepCheck
    \/ DepConsume
    \/ Tick

SpecToken == Init /\ [][NextToken]_vars

\* Approve requests in flight together, on workflows that can run.
CreateLevels == \E w \in WorkflowIds, r \in ReqLevels :
                  create_workflow(Requestor, w, "disk_check", <<"A1">>, r, 2)
ApproveIssue == \E c \in Callers, w \in WorkflowIds, a \in Users :
                  approve_issue(c, a, w, a, 1)
ApproveHandle == \E c \in Callers : approve_handle(c)
DenyOnce == \E w \in WorkflowIds : deny_workflow("alice", w)

NextApprove ==
    \/ CreateLevels
    \/ ApproveIssue
    \/ ApproveHandle
    \/ DenyOnce
    \/ Tick

SpecApprove == Init /\ [][NextApprove]_vars

\* Execution with the awaited execute_script call ending: a coroutine the
\* event loop resumes either returns or raises.
NextExec ==
    \/ CreateRunnable
    \/ ApproveOnce
    \/ DenyOnce
    \/ Execute
    \/ ExecuteReturned
    \/ ExecuteRaised
    \/ Tick

SpecExec ==
    /\ Init
    /\ [][NextExec]_vars
    /\ \A c \in Callers : WF_vars(execute_returned(c) \/ execute_raised(c))

\* The proxy as deployed, native auth enabled or not: connections accepted
\* and served, time passing.
ProxyConfigs ==
    {ProxyConfig(DeployedConfig.backends, NoBackend, n) : n \in BOOLEAN}
InitProxy ==
    /\ ControllerStart
    /\ ProxyStart
    /\ AgentsStart
    /\ DepsStart
    /\ ReportsStart
    /\ MailerStart
    /\ TunnelStart
    /\ config \in ProxyConfigs
    /\ router = SortedBackends(config.backends, ListedBackends(config))
Accept == \E k \in Conns : accept(k)
\* Paths of the deployment: one per backend, one no backend serves.
DeployedPaths == {<<>>, <<"a">>, <<"a", "b">>}
DeployedRequests ==
    [path : DeployedPaths, cert : CertCNs \cup {NoCert}, cookie : CookieSids \cup {NoSid},
     authorization : Authorizations]
Handle == \E k \in Conns, req \in DeployedRequests, up \in BOOLEAN : handle(k, req, up)

NextProxy ==
    \/ Accept
    \/ Handle
    \/ Tick

SpecProxy == InitProxy /\ [][NextProxy]_vars

\* The proxy together with direct calls of the AuthManager's session methods.
Identities ==
    {extract_cert_user(c) : c \in CertCNs}
    \cup {verify_ntlm(a) : a \in {b \in Authorizations : b.kind = "type3"}}
CreateSession == \E sid \in Sids, u \in Identities : create_session(sid, u)
GetSession == \E sid \in Sids : get_session_call(sid)

NextAuth ==
    \/ Accept
    \/ Handle
    \/ CreateSession
    \/ GetSession
    \/ Tick

SpecAuth == InitProxy /\ [][NextAuth]_vars

\* Routing over every configuration of backends and default backend, the
\* caller presenting a certificate and the backend accepting connections.
RouteConfigs ==
    {ProxyConfig(b, d, TRUE) :
        b \in UNION {[S -> {BackendConfig(p, TRUE) : p \in Prefixes}] : S \in SUBSET BackendIds},
        d \in DefaultIds}
InitRoute ==
    /\ ControllerStart
    /\ ProxyStart
    /\ AgentsStart
    /\ DepsStart
    /\ ReportsStart
    /\ MailerStart
    /\ TunnelStart
    /\ config \in RouteConfigs
    /\ router = SortedBackends(config.backends, ListedBackends(config))
CertRequests ==
    [path : Paths, cert : CertCNs, cookie : {NoSid},
     authorization : {[kind |-> "none", username |-> "-"]}]
HandleCert == \E k \in Conns, req \in CertRequests : handle(k, req, TRUE)

NextRoute ==
    \/ Accept
    \/ HandleCert

SpecRoute == InitRoute /\ [][NextRoute]_vars

\* The agents routes called by the admins.
\* An agent registers with the default status.
Register == \E u \in Admins, a \in AgentNames, h \in Hosts, p \in Ports,
               e \in VALID_ENVIRONMENTS :
               register_agent(u, a, h, p, "online", TRUE, e)
UpdateAgent == \E u \in Admins, a \in AgentNames, st \in AgentStatuses \cup {NoAgent},
                  ssl \in SslUpdates, e \in VALID_ENVIRONMENTS \cup {NoAgent} :
                  update_agent_status(u, a, st, ssl, e)
Deregister == \E u \in Admins, a \in AgentNames : deregister_agent(u, a)

\* The list call made by any principal, over the registry the admins keep.
ListAgents == \E u \in Principals, l \in Limits, st \in AgentStatuses \cup {NoAgent},
                 e \in VALID_ENVIRONMENTS \cup {NoAgent} :
                 \E rows \in list_agents_with_status(l, st) : list_agents(u, l, st, e, rows)

NextAgents ==
    \/ Register
    \/ UpdateAgent
    \/ Deregister

SpecAgents == Init /\ [][NextAgents]_vars

ListAllAgents == \E u \in Principals, l \in Limits, st \in AgentStatuses \cup {NoAgent} :
                    \E rows \in list_agents_with_status(l, st) :
                       list_all_agents(u, l, st, rows)

\* The grant and revoke calls of the admins, for known and unknown users.
GrantNames == Principals \cup {"nobody"}
GrantEnvironments == VALID_ENVIRONMENTS \cup {"*"}
Grant == \E u \in Admins, t \in GrantNames, e \in GrantEnvironments :
            grant_environment_access(u, t, e)
Revoke == \E u \in Admins, t \in GrantNames, e \in GrantEnvironments :
             revoke_environment_access(u, t, e)

NextGrants ==
    \/ Grant
    \/ Revoke

SpecGrants == Init /\ [][NextGrants]_vars

\* Requests reaching a route that depends on require_admin.
RequireAdmin == \E request \in DepRequests : require_admin(request)

NextDeps ==
    \/ RequireAdmin

SpecDeps == Init /\ [][NextDeps]_vars

\* normalize_identity applied, and applied again, to every identity string
\* of the bounded alphabet.
InitNormalize ==
    /\ ControllerStart
    /\ ProxyStart
    /\ AgentsStart
    /\ ReportsStart
    /\ MailerStart
    /\ TunnelStart
    /\ dresp = NoPrincipalReply
    /\ config = DeployedConfig
    /\ router = SortedBackends(config.backends, ListedBackends(config))
    /\ \E raw \in IdStrings : identity = [raw |-> raw, normalized |-> raw, applied |-> 0]

NextNormalize ==
    \/ normalize_call

SpecNormalize == InitNormalize /\ [][NextNormalize]_vars

\* The report routes over the deployed registry and scripts.
InitReports ==
    /\ ControllerStart
    /\ ProxyStart
    /\ DepsStart
    /\ ReportsStart
    /\ MailerStart
    /\ TunnelStart
    /\ agents = DeployedAgents
    /\ grants = DeployedGrants
    /\ aresp = NoAgentResponse
    /\ config = DeployedConfig
    /\ router = SortedBackends(config.backends, ListedBackends(config))

RunReport == \E s \in ReportScriptIds, t \in ReportTargets, ps \in SUBSET ParamNames,
                r \in RunIds : run_report("alice", s, t, ps, r)
ExecuteReport == \E r \in RunIds : execute_report(r)
AgentAnswers == \E r \in RunIds, reply \in AgentReplies : agent_replies(r, reply)
ExecuteReportResumes == \E r \in RunIds : execute_report_resumes(r)
ExecuteReportEvicts == \E r \in RunIds : execute_report_evicts(r)
WebSocketOutput == \E w \in WebSockets, r \in RunIds : websocket_output(w, r)
WebSocketSubscribes == \E w \in WebSockets : websocket_subscribes(w)
WebSocketReplays == \E w \in WebSockets : websocket_replays(w)
ClientDisconnects == \E w \in WebSockets : client_disconnects(w)
WebSocketDisconnected == \E w \in WebSockets : websocket_disconnected(w)

\* The run route called with every script, target and parameter set, and the
\* task of a run it started.
NextRun ==
    \/ RunReport
    \/ ExecuteReport
    \/ AgentAnswers
    \/ ExecuteReportEvicts

SpecRun == InitReports /\ [][NextRun]_vars

\* One run of a script without parameters on the online agent, its task and
\* the subscribers that come and go.
StartRun == \E r \in RunIds : run_report("alice", "uptime", "ag1", {}, r)

NextReports ==
    \/ StartRun
    \/ ExecuteReport
    \/ AgentAnswers
    \/ ExecuteReportResumes
    \/ ExecuteReportEvicts
    \/ WebSocketOutput
    \/ WebSocketSubscribes
    \/ WebSocketReplays
    \/ ClientDisconnects
    \/ WebSocketDisconnected

SpecReports == InitReports /\ [][NextReports]_vars

NextList ==
    \/ Register
    \/ UpdateAgent
    \/ ListAgents
    \/ ListAllAgents

SpecList == Init /\ [][NextList]_vars

\* ----------------------------------------------------------------- claims
Rejected(r) == r.code \in {400, 403, 404}

stored_status(w) == IF workflow_exists(w) THEN workflows[w].status ELSE "none"

\* C1: a workflow enters executed or failed at most once in total, and every
\* execute call made while its stored status is not approved is rejected,
\* leaves the workflows table as it is and does not invoke execute_script.
C1_ExecuteAtMostOnce ==
    /\ [](\A w \in WorkflowIds : terminalEntries[w] <= 1)
    /\ [][\A c \in Callers, w \in RequestIds :
            (execute_workflow(c, w, NoToken) /\ stored_status(w) # "approved")
            => /\ resp'.op = "execute" /\ Rejected(resp')
               /\ workflows' = workflows
               /\ executorCalls' = executorCalls
               /\ callPc' = callPc]_vars

\* An executed workflow whose later execute call was refused.
C1_Witness ==
    \E w \in WorkflowIds :
        /\ stored_status(w) = "executed"
        /\ terminalEntries[w] = 1
        /\ resp = Response("execute", resp.who, w, 400, "Workflow has already been executed")

InFlightOn(w) == {c \in Callers : callPc[c] = "awaiting" /\ callWf[c] = w}

\* C2: of two execute calls that run concurrently on an approved workflow
\* (with a script and targets), exactly one performs approved -> executing;
\* the call that arrives while the other awaits execute_script is rejected
\* (400, "not approved (status: executing)") and changes nothing;
\* execute_script is invoked once; the admitted call ends the workflow in
\* one terminal state: executed with a 200 when execute_script returns,
\* failed when it raises.
C2_ConcurrentExecute ==
    /\ [](\A w \in WorkflowIds :
            /\ Cardinality(InFlightOn(w)) <= 1
            /\ executorCalls[w] <= 1
            /\ terminalEntries[w] <= executorCalls[w]
            /\ (InFlightOn(w) # {} <=> stored_status(w) = "executing"))
    /\ [][\A c \in Callers, d \in Callers, w \in WorkflowIds :
            (c # d /\ c \in InFlightOn(w) /\ execute_workflow(d, w, NoToken))
            => /\ resp' = Response("execute", d, w, 400,
                                   "Workflow is not approved (status: executing)")
               /\ workflows' = workflows
               /\ executorCalls' = executorCalls
               /\ callPc' = callPc]_vars
    /\ [][\A c \in Callers, w \in WorkflowIds :
            /\ (execute_returned(c) /\ callWf[c] = w)
               => resp'.code = 200 /\ stored_status(w)' = "executed" /\ InFlightOn(w)' = {}
            /\ (execute_raised(c) /\ callWf[c] = w)
               => resp'.code = 500 /\ stored_status(w)' = "failed" /\ InFlightOn(w)' = {}]_vars

\* One call awaits execute_script and the other has just been refused.
C2_Witness ==
    \E c \in Callers, d \in Callers, w \in WorkflowIds :
        /\ c # d
        /\ c \in InFlightOn(w)
        /\ executorCalls[w] = 1
        /\ resp = Response("execute", d, w, 400, "Workflow is not approved (status: executing)")

LegalStep(a, b) ==
    <<a, b>> \in {<<"none", "pending">>,
                  <<"pending", "approved">>, <<"approved", "executing">>,
                  <<"executing", "executed">>, <<"executing", "failed">>,
                  <<"pending", "denied">>, <<"pending", "expired">>}

\* C3: every change of a workflow's status, as an observer reads it, is a
\* step of the state diagram (created as pending; pending -> approved ->
\* executing -> executed | failed; pending -> denied; pending -> expired), so
\* the statuses a workflow takes form a prefix of a legal path.
C3_LegalPath ==
    [][\A w \in WorkflowIds :
         status_of(w)' # status_of(w) => LegalStep(status_of(w), status_of(w)')]_vars

\* A workflow that walked the whole path pending, approved, executing, executed.
C3_Witness ==
    \E w \in WorkflowIds :
        /\ status_of(w) = "executed"
        /\ Len(audit[w]) = 3
        /\ audit[w][2].action = "fully_approved"

\* C4: a workflow with at least required_approval_levels recorded approvals
\* is approved, executing, executed or failed, in every reachable state.
C4_ApprovedWhenCountReached ==
    \A w \in DOMAIN workflows :
        Len(workflows[w].approvals) >= workflows[w].required_approval_levels
        => status_of(w) \in {"approved", "executing", "executed", "failed"}

\* C6: the approvals of a workflow hold at most one entry per approver, and
\* an approve call naming an approver already recorded is rejected and
\* leaves approvals and status (the whole row) unchanged.
C6_OneApprovalPerApprover ==
    /\ [](\A w \in DOMAIN workflows :
            Cardinality(approvers_of(w)) = Len(workflows[w].approvals))
    /\ [][\A u \in Users, w \in WorkflowIds, a \in Users, l \in Levels :
            (approve_workflow(u, w, a, l) /\ a \in approvers_of(w))
            => /\ resp'.op = "approve" /\ Rejected(resp')
               /\ workflows' = workflows]_vars

\* A pending workflow with one approval whose approver has just been refused
\* a second one.
C6_Witness ==
    \E w \in DOMAIN workflows :
        /\ stored_status(w) = "pending"
        /\ Len(workflows[w].approvals) = 1
        /\ resp = Response("approve", resp.who, w, 400, "Already approved by this user")

\* C7: an execute call made after created_at + ttl_minutes never succeeds
\* (no move to executing, execute_script not invoked), and when the workflow
\* was still pending the rejection is a 400 saying the workflow has expired.
C7_NoExecuteAfterTTL ==
    [][\A c \in Callers, w \in WorkflowIds :
         (execute_workflow(c, w, NoToken) /\ workflow_exists(w)
            /\ workflows[w].required_approval_levels >= 1
            /\ now > expires_at(workflows[w]))
         => /\ Rejected(resp')
            /\ workflows' = workflows
            /\ executorCalls' = executorCalls
            /\ (stored_status(w) = "pending"
                  => resp' = Response("execute", c, w, 400, "Workflow has expired"))]_vars

\* ------------------------------------------- claims on concurrent approvals
FullyApprovedEntries(w) ==
    {i \in DOMAIN audit[w] : audit[w][i].action = "fully_approved"}

\* Request d is in flight; it and another request c, by a distinct approver,
\* were both issued while workflow w was pending and one approval short of
\* required_approval_levels; the handler of c has run and approved w.
RacedLast(c, d, w) ==
    /\ c # d
    /\ approvePc[d] = "issued" /\ approvePc[c] = "idle"
    /\ approveArgs[d].workflow_id = w /\ approveArgs[c].workflow_id = w
    /\ approveArgs[d].seen_status = "pending" /\ approveArgs[c].seen_status = "pending"
    /\ workflows[w].required_approval_levels >= 1
    /\ approveArgs[d].seen_count + 1 = workflows[w].required_approval_levels
    /\ approveArgs[c].seen_count = approveArgs[d].seen_count
    /\ approveArgs[c].approver # approveArgs[d].approver
    /\ stored_status(w) = "approved"
    /\ workflows[w].approvals[Len(workflows[w].approvals)].approver = approveArgs[c].approver
    /\ approveArgs[d].approver \notin approvers_of(w)

\* C5 as stated: two approve calls by distinct approvers issued concurrently
\* on a pending workflow, each supplying the last required approval, end in
\* one transition to approved and in both approvals recorded.
C5_BothApprovalsRecorded ==
    /\ [](\A w \in WorkflowIds : Cardinality(FullyApprovedEntries(w)) <= 1)
    /\ [][\A c \in Callers, d \in Callers, w \in WorkflowIds :
            (workflow_exists(w) /\ RacedLast(c, d, w) /\ approve_handle(d))
            => /\ approveArgs[d].approver \in approvers_of(w)'
               /\ stored_status(w)' = "approved"]_vars

\* C5 as amended: the status moves to approved exactly once and only the
\* approval of the call whose handler runs first is recorded; the other call
\* is rejected with 400 "Workflow is already approved" and writes nothing.
C5_OneTransitionOneRecorded ==
    /\ [](\A w \in WorkflowIds : Cardinality(FullyApprovedEntries(w)) <= 1)
    /\ [][\A c \in Callers, d \in Callers, w \in WorkflowIds :
            (workflow_exists(w) /\ RacedLast(c, d, w) /\ approve_handle(d))
            => /\ resp' = Response("approve", d, w, 400, "Workflow is already approved")
               /\ workflows' = workflows
               /\ audit' = audit]_vars

\* Both concurrent requests were served: the first approved the workflow, the
\* second has just been refused.
C5_Witness ==
    \E c \in Callers, d \in Callers, w \in DOMAIN workflows :
        /\ c # d
        /\ approvePc[c] = "idle" /\ approvePc[d] = "idle"
        /\ approveArgs[c].workflow_id = w /\ approveArgs[d].workflow_id = w
        /\ approveArgs[c].seen_status = "pending" /\ approveArgs[d].seen_status = "pending"
        /\ approveArgs[c].seen_count = approveArgs[d].seen_count
        /\ approveArgs[c].seen_count + 1 = workflows[w].required_approval_levels
        /\ approveArgs[c].approver # approveArgs[d].approver
        /\ approveArgs[c].approver \in approvers_of(w)
        /\ approveArgs[d].approver \notin approvers_of(w)
        /\ Cardinality(FullyApprovedEntries(w)) = 1
        /\ resp = Response("approve", d, w, 400, "Workflow is already approved")

\* ------------------------------------------------ claims on execution tokens
\* C8: at most one require_execution_token call succeeds per token, and once
\* `used` is true it stays true and every presentation of the token is
\* rejected without consuming anything.
C8_TokenConsumedOnce ==
    /\ [](\A t \in DOMAIN executionTokens :
            admissions[t] <= 1 /\ (admissions[t] = 1 => executionTokens[t].used))
    /\ [][\A t \in DOMAIN executionTokens :
            executionTokens[t].used => executionTokens'[t].used]_vars
    /\ [][\A c \in Callers, w \in RequestIds, t \in DOMAIN executionTokens :
            (executionTokens[t].used /\ dep_check(c, PrincipalOf(c), w, t))
            => Rejected(resp') /\ depPc' = depPc /\ admissions' = admissions]_vars
    /\ [][\A c \in Callers :
            (depPc[c] = "checked" /\ executionTokens[depArgs[c].token].used
               /\ dep_consume(c))
            => /\ Rejected(resp')
               /\ admissions' = admissions
               /\ executionTokens' = executionTokens]_vars

\* Two requests presented the same unused token together: one was admitted,
\* the other has just been refused at the compare-and-set.
C8_Witness ==
    \E t \in DOMAIN executionTokens :
        /\ admissions[t] = 1
        /\ executionTokens[t].used
        /\ resp.op = "token_dep" /\ resp.code = 403
        /\ resp.detail = "Token could not be consumed"

TokenAdmissible(t, w, at) ==
    /\ t \in DOMAIN executionTokens
    /\ executionTokens[t].workflow_id = w
    /\ ~executionTokens[t].used
    /\ ~(executionTokens[t].expires_at < at)

\* C9: require_execution_token admits a request only if the token exists, is
\* bound to the requested workflow, is unused and is not expired; a token
\* whose expires_at is earlier than now is rejected and stays unconsumed.
C9_OnlyValidTokensAdmitted ==
    /\ [][\A c \in Callers, w \in RequestIds, t \in HeaderTokens :
            (dep_check(c, PrincipalOf(c), w, t) /\ depPc'[c] = "checked")
            => t \in DOMAIN executionTokens
               /\ executionTokens[t].workflow_id = w
               /\ ~executionTokens[t].used]_vars
    /\ [][\A c \in Callers :
            (dep_consume(c)
               /\ executionTokens[depArgs[c].token].expires_at < depArgs[c].checked_at)
            => Rejected(resp') /\ executionTokens' = executionTokens]_vars
    /\ [][\A c \in Callers :
            (dep_consume(c) /\ resp'.code = 200)
            => TokenAdmissible(depArgs[c].token, depArgs[c].workflow_id,
                               depArgs[c].checked_at)]_vars

\* C10: an execute call that carries an unused, unexpired execution token
\* minted for the workflow is admitted although the workflow's status is
\* already executed.
C10_TokenAdmitsReexecution ==
    [][\A c \in Callers, w \in WorkflowIds, t \in DOMAIN executionTokens :
         (execute_workflow(c, w, t) /\ stored_status(w) = "executed"
            /\ TokenAdmissible(t, w, now))
         => /\ callPc'[c] = "awaiting"
            /\ executorCalls'[w] = executorCalls[w] + 1]_vars

\* ------------------------------------------------ claims on terminal states
TerminalStatuses == {"executed", "failed", "denied", "expired"}

\* C11: once a workflow's status is executed, failed, denied or expired, no
\* approve, deny or execute call, in any interleaving, changes its status or
\* its approvals.
C11_TerminalImmutable ==
    [][\A w \in WorkflowIds :
         (workflow_exists(w) /\ status_of(w) \in TerminalStatuses)
         => /\ status_of(w)' = status_of(w)
            /\ workflows'[w].approvals = workflows[w].approvals]_vars

\* A denied workflow on which an approve call has just been refused.
C11_Witness ==
    \E w \in DOMAIN workflows :
        /\ stored_status(w) = "denied"
        /\ resp = Response("approve", resp.who, w, 400, "Workflow is already denied")

\* C12: an approve or deny call on a workflow whose status is not pending is
\* rejected with an error and leaves status, approvals (the whole row) and
\* the audit log unchanged.
C12_NonPendingRejects ==
    [][\A u \in Users, w \in WorkflowIds :
         (workflow_exists(w) /\ status_of(w) # "pending")
         => /\ \A a \in Users, l \in Levels :
                  approve_workflow(u, w, a, l)
                  => /\ resp' = Response("approve", u, w, 400,
                                         "Workflow is already " \o status_of(w))
                     /\ workflows' = workflows /\ audit' = audit
            /\ deny_workflow(u, w)
                  => /\ resp' = Response("deny", u, w, 400,
                                         "Cannot deny workflow with status: " \o status_of(w))
                     /\ workflows' = workflows /\ audit' = audit]_vars

\* An approved workflow on which a deny call has just been refused.
C12_Witness ==
    \E w \in DOMAIN workflows :
        /\ stored_status(w) = "approved"
        /\ resp = Response("deny", resp.who, w, 400,
                           "Cannot deny workflow with status: approved")

\* C13: a workflow that enters executing eventually reaches executed or
\* failed, and from executing its status moves to nothing but executed (the
\* call returned) or failed (the call raised).
C13_ExecutingEndsTerminal ==
    /\ \A w \in WorkflowIds :
          (stored_status(w) = "executing") ~> (stored_status(w) \in {"executed", "failed"})
    /\ [][\A w \in WorkflowIds :
            stored_status(w) = "executing"
            => stored_status(w)' \in {"executing", "executed", "failed"}]_vars
    /\ [][\A c \in Callers, w \in WorkflowIds :
            /\ (execute_returned(c) /\ callWf[c] = w) => stored_status(w)' = "executed"
            /\ (execute_raised(c) /\ callWf[c] = w) => stored_status(w)' = "failed"]_vars

\* A workflow whose execute_script call raised: it went through executing
\* and ended failed.
C13_Witness ==
    \E w \in DOMAIN workflows :
        /\ stored_status(w) = "failed"
        /\ terminalEntries[w] = 1
        /\ resp = Response("execute", resp.who, w, 500, "execution failed")

\* ------------------------------------------------------ claims on the proxy
\* This step is handle serving, on connection k, the request the reply records.
HandledNow(k) ==
    /\ conn[k] = "open"
    /\ presp'.op = "handle"
    /\ \E up \in BOOLEAN : handle(k, presp'.req, up)

session_expires_at(store, sid) == store[sid].created + config.session_timeout

\* The request is served through the session its cookie names: no
\* certificate, native auth enabled, an auth_required backend.
ThroughSession(req) ==
    /\ route(req.path).found
    /\ config.backends[route(req.path).bid].auth_required
    /\ config.ntlm_enabled
    /\ req.cert = NoCert
    /\ req.cookie \in DOMAIN sessions

\* C14: get_session returns a session only while now is within
\* session_timeout of the session's creation; a lookup of a session whose
\* expiry has passed returns nothing and removes it from the store.  The same
\* holds for the lookup handle makes for a proxy_session cookie.
C14_NoExpiredSession ==
    /\ [][\A sid \in CookieSids :
            get_session_call(sid)
            => /\ presp'.user # NoUser
                  => /\ sid \in DOMAIN sessions
                     /\ now < session_expires_at(sessions, sid)
                     /\ presp'.user.cn = sessions[sid].cn
                     /\ sessions' = sessions
               /\ (sid \in DOMAIN sessions /\ now >= session_expires_at(sessions, sid))
                  => /\ presp'.user = NoUser
                     /\ sid \notin DOMAIN sessions']_vars
    /\ [][\A k \in Conns :
            (HandledNow(k) /\ ThroughSession(presp'.req)
               /\ now >= session_expires_at(sessions, presp'.req.cookie))
            => /\ presp'.req.cookie \notin DOMAIN sessions'
               /\ (presp'.user # NoUser => presp'.user = verify_ntlm(presp'.req.authorization))]_vars

\* A lookup has just found a session past its expiry and removed it.
C14_Witness ==
    /\ presp.op = "get_session"
    /\ presp.removed
    /\ presp.user = NoUser
    /\ presp.sid \notin DOMAIN sessions

\* C15: a request authenticated through a live session, later than the
\* session's creation, strictly increases the session's expires_at.
C15_SlidingExpiry ==
    [][\A k \in Conns :
         (HandledNow(k) /\ ThroughSession(presp'.req) /\ session_live(presp'.req.cookie)
            /\ now > sessions[presp'.req.cookie].created)
         => /\ presp'.req.cookie \in DOMAIN sessions'
            /\ session_expires_at(sessions', presp'.req.cookie)
                 > session_expires_at(sessions, presp'.req.cookie)]_vars

\* C16: when the proxy admits a caller on a certificate or on a Type-3
\* message, a session for that identity exists in the store afterwards.
C16_SessionAfterFirstAuth ==
    [][\A k \in Conns :
         (HandledNow(k) /\ presp'.user # NoUser)
         => \E sid \in DOMAIN sessions' : sessions'[sid].cn = presp'.user.cn]_vars

Matching(cfg, path) ==
    {b \in DOMAIN cfg.backends : StartsWith(path, cfg.backends[b].path_prefix)}

\* C17: route returns a backend whose path_prefix is a longest prefix of the
\* path among the backends; with no matching prefix it returns the default
\* backend; with no matching prefix and no default backend among the
\* backends the proxy answers 404 and contacts no backend.
C17_LongestPrefixRoute ==
    /\ [](\A path \in Paths :
            \A r \in {route(path)}, m \in {Matching(config, path)} :
               /\ m # {}
                  => /\ r.found /\ r.bid \in m
                     /\ \A b \in m : Len(config.backends[b].path_prefix)
                                       <= Len(config.backends[r.bid].path_prefix)
               /\ (m = {} /\ config.default_backend \in DOMAIN config.backends)
                  => r = [bid |-> config.default_backend, found |-> TRUE]
               /\ (m = {} /\ config.default_backend \notin DOMAIN config.backends)
                  => ~r.found)
    /\ [][\A k \in Conns :
            HandledNow(k)
            => \A r \in {route(presp'.req.path)} :
                  IF r.found
                  THEN presp'.bid = r.bid /\ presp'.status # 404
                  ELSE /\ presp'.status = 404
                       /\ ~presp'.contacted /\ ~presp'.forwarded]_vars

\* A request was forwarded to b2, whose prefix is longer than, and starts
\* with, the prefix of b1 listed before it.
C17_Witness ==
    /\ presp.op = "handle" /\ presp.forwarded /\ presp.bid = "b2"
    /\ DOMAIN config.backends = BackendIds
    /\ Len(config.backends["b1"].path_prefix) < Len(config.backends["b2"].path_prefix)
    /\ StartsWith(config.backends["b2"].path_prefix, config.backends["b1"].path_prefix)

\* C18: after the proxy answers 401 asking for native-auth proof (to a
\* request without proof, or with the challenge to a Type-1 message), the
\* client's connection is still open.
C18_ConnectionKeptAcross401 ==
    [][\A k \in Conns :
         (HandledNow(k) /\ presp'.status = 401 /\ presp'.www_authenticate # "")
         => conn'[k] = "open"]_vars

\* The identity handle can establish for a request.
IdentityEstablished(req) ==
    \/ req.cert # NoCert
    \/ config.ntlm_enabled /\ session_live(req.cookie)
    \/ config.ntlm_enabled /\ req.authorization.kind = "type3"

\* C19: for a request routed to a backend with auth_required, the proxy
\* connects and forwards only with an identity established (certificate,
\* live session, Type-3 message) and forwards that identity; in every other
\* case it answers 401 and does not contact the backend.
C19_ForwardOnlyAuthenticated ==
    [][\A k \in Conns :
         (HandledNow(k) /\ route(presp'.req.path).found
            /\ config.backends[route(presp'.req.path).bid].auth_required)
         => /\ (presp'.contacted \/ presp'.forwarded)
               => /\ IdentityEstablished(presp'.req)
                  /\ presp'.user # NoUser
                  /\ presp'.user.cn \in {presp'.req.cert, presp'.req.authorization.username}
                                        \cup {sessions[sid].cn : sid \in DOMAIN sessions}
            /\ IdentityEstablished(presp'.req) => presp'.contacted
            /\ ~IdentityEstablished(presp'.req)
               => /\ presp'.status = 401
                  /\ ~presp'.contacted /\ ~presp'.forwarded]_vars

\* A caller without certificate was forwarded on a Type-3 message.
C19_Witness ==
    /\ presp.op = "handle"
    /\ presp.forwarded
    /\ presp.user.auth_method = "ntlm"

\* ------------------------------------------------------ claims on the agents
\* C20: no two registered agents share (host, port); a register call (by a
\* caller with access to the target environment) whose (host, port) belongs
\* to an agent of another name is refused with 409 naming that agent and
\* writes nothing; a register call with an existing name, its (host, port)
\* free or its own, updates that agent and adds none.
C20_HostPortUnique ==
    /\ [](\A a \in DOMAIN agents, b \in DOMAIN agents :
            (agents[a].host = agents[b].host /\ agents[a].port = agents[b].port) => a = b)
    /\ [][\A u \in Admins, a \in AgentNames, h \in Hosts, p \in Ports,
            e \in VALID_ENVIRONMENTS :
            (aresp'.op = "register" /\ aresp'.who = u /\ aresp'.agent_name = a
               /\ register_agent(u, a, h, p, "online", TRUE, e)
               /\ user_can_access_environment(get_user_allowed_environments(u), e))
            => IF \E b \in DOMAIN agents \ {a} : agents[b].host = h /\ agents[b].port = p
               THEN /\ aresp'.code = 409
                    /\ aresp'.detail \in DOMAIN agents \ {a}
                    /\ agents[aresp'.detail].host = h /\ agents[aresp'.detail].port = p
                    /\ agents' = agents
               ELSE /\ aresp'.code = 200
                    /\ DOMAIN agents' = DOMAIN agents \cup {a}
                    /\ agents'[a] = [host |-> h, port |-> p, status |-> "online",
                                      ssl_enabled |-> TRUE, environment |-> e]
                    /\ \A b \in DOMAIN agents \ {a} : agents'[b] = agents[b]]_vars

\* Two agents are registered and a register call for a new or another name
\* at a taken host:port has just been refused.
C20_Witness ==
    /\ aresp.op = "register" /\ aresp.code = 409
    /\ aresp.detail \in DOMAIN agents
    /\ aresp.detail # aresp.agent_name
    /\ Cardinality(DOMAIN agents) = 2

\* ------------------------------------------------ claims on the agent lists
\* C21: every agent a list call returns to user u is a registered agent whose
\* environment u is granted, or u holds `*`; a user with no grant receives
\* the empty list; a user with grants who filters on an environment outside
\* them receives 403.
C21_ListWithinGrants ==
    /\ [](aresp.op = "list" /\ aresp.code = 200
            => /\ aresp.count = Cardinality(DOMAIN aresp.agents)
               /\ \A a \in DOMAIN aresp.agents :
                     /\ a \in DOMAIN agents /\ aresp.agents[a] = agents[a]
                     /\ \/ agents[a].environment \in get_user_allowed_environments(aresp.who)
                        \/ "*" \in get_user_allowed_environments(aresp.who))
    /\ [](aresp.op = "list" /\ get_user_allowed_environments(aresp.who) = {}
            => aresp.code = 200 /\ aresp.agents = <<>> /\ aresp.count = 0)
    /\ [][\A u \in Principals, e \in VALID_ENVIRONMENTS :
            (aresp'.op = "list" /\ aresp'.who = u
               /\ get_user_allowed_environments(u) # {}
               /\ "*" \notin get_user_allowed_environments(u)
               /\ e \notin get_user_allowed_environments(u)
               /\ \E l \in Limits, st \in AgentStatuses \cup {NoAgent} :
                     \E rows \in list_agents_with_status(l, st) :
                        list_agents(u, l, st, e, rows))
            => aresp'.code = 403 /\ aresp'.detail = e]_vars

\* Agents of both environments are registered and a user granted one of them
\* has just been given a non-empty list that leaves an agent out.
C21_Witness ==
    /\ aresp.op = "list" /\ aresp.code = 200
    /\ aresp.agents # <<>>
    /\ "*" \notin get_user_allowed_environments(aresp.who)
    /\ \E a \in DOMAIN agents : a \notin DOMAIN aresp.agents
          /\ agents[a].environment \notin get_user_allowed_environments(aresp.who)

\* C22: GET /agents/all without a limit answers 200 with every registered
\* agent and their count when no status is given, with exactly the agents of
\* the requested status when one is given, and never with an internal error.
C22_UnfilteredListReturnsAll ==
    [][\A u \in Principals, st \in AgentStatuses \cup {NoAgent} :
        (aresp'.op = "list_all" /\ aresp'.who = u
           /\ \E rows \in list_agents_with_status(NoLimit, st) :
                 list_all_agents(u, NoLimit, st, rows))
        => /\ aresp'.code = 200
           /\ aresp'.agents =
                 Rows({a \in DOMAIN agents : st = NoAgent \/ agents[a].status = st})
           /\ aresp'.count = Cardinality(DOMAIN aresp'.agents)]_vars

\* C23: an update call that names a target environment for a registered
\* agent succeeds, moving the agent, when the caller has access to the agent's
\* current environment and to the target; otherwise it is answered 403 and
\* the agent's environment, status and TLS flag are unchanged.
C23_EnvChangeNeedsBoth ==
    [][\A u \in Admins, a \in AgentNames, e \in VALID_ENVIRONMENTS :
        (aresp'.op = "update" /\ aresp'.who = u /\ aresp'.agent_name = a
           /\ a \in DOMAIN agents
           /\ \E st \in AgentStatuses \cup {NoAgent}, ssl \in SslUpdates :
                 update_agent_status(u, a, st, ssl, e))
        => IF /\ user_can_access_environment(get_user_allowed_environments(u),
                                             agents[a].environment)
              /\ user_can_access_environment(get_user_allowed_environments(u), e)
           THEN aresp'.code = 200 /\ agents'[a].environment = e
           ELSE /\ aresp'.code = 403
                /\ agents'[a].environment = agents[a].environment
                /\ agents'[a].status = agents[a].status
                /\ agents'[a].ssl_enabled = agents[a].ssl_enabled]_vars

\* A caller with access to an agent's environment has just been refused the
\* move of that agent to an environment outside the caller's grants.
C23_Witness ==
    /\ aresp.op = "update" /\ aresp.code = 403
    /\ aresp.agent_name \in DOMAIN agents
    /\ aresp.detail # agents[aresp.agent_name].environment
    /\ user_can_access_environment(get_user_allowed_environments(aresp.who),
                                   agents[aresp.agent_name].environment)

\* -------------------------------------------- claims on environment grants
NoWildcardHeld == \A x \in DOMAIN grants : "*" \notin grants[x]

\* C24: a grant of environment e succeeds only if the granting admin holds e
\* or `*`, a grant of `*` only if the admin holds `*`; and once no user holds
\* `*`, no grant or revoke call makes a user hold it.
C24_GrantNeedsHolding ==
    /\ [][\A u \in Admins, t \in GrantNames, e \in GrantEnvironments :
            (aresp'.op = "grant" /\ aresp'.code = 200 /\ aresp'.who = u
               /\ aresp'.agent_name = t /\ grant_environment_access(u, t, e))
            => /\ e \in get_user_allowed_environments(u)
                  \/ "*" \in get_user_allowed_environments(u)
               /\ e = "*" => "*" \in get_user_allowed_environments(u)
               /\ e \in grants'[t]]_vars
    /\ [][NoWildcardHeld => NoWildcardHeld']_vars

\* No user holds `*` any more, some user still holds an environment, and a
\* grant of `*` has just been refused.
C24_Witness ==
    /\ NoWildcardHeld
    /\ \E x \in DOMAIN grants : grants[x] # {}
    /\ aresp.op = "grant" /\ aresp.code = 403 /\ aresp.detail = "Only superadmins"

\* ------------------------------------------------ claims on the dependencies
\* The auth_method the proxy assigns to a caller it authenticated by
\* challenge/response.
NativeMethod == verify_ntlm([kind |-> "type3", username |-> "bob"]).auth_method

\* C25: require_admin admits the principal verify_token returned exactly
\* when its role is `admin` or its auth_method is smartcard, the proxy's
\* challenge/response method, or proxy; every other principal gets 403.
C25_AdminAdmission ==
    dresp.op = "require_admin" /\ dresp.verified # NoPrincipal
        => IF \/ dresp.verified.role = "admin"
              \/ dresp.verified.auth_method \in {"smartcard", NativeMethod, "proxy"}
           THEN dresp.code = 200
           ELSE dresp.code = 403

\* C26: normalize_identity is idempotent: applied to its own result it
\* returns that result, for every identity string.
C26_NormalizeIdempotent ==
    [][identity.applied = 1 /\ identity'.applied = 2
         => identity'.normalized = identity.normalized]_vars

\* ------------------------------------------------------ claims on reports
\* C30: run answers 404 for an unknown script, 404 for an unknown agent, 400
\* for an agent that is not online and 400 for a missing required parameter,
\* and then inserts no row, registers no run state and starts no task, so
\* that nothing is dispatched for it.
C30_RejectedRunLeavesNothing ==
    /\ [][\A s \in ReportScriptIds, t \in ReportTargets, ps \in SUBSET ParamNames :
            (rresp'.op = "run" /\ rresp'.script_id = s /\ rresp'.target = t
               /\ \E r \in RunIds : run_report("alice", s, t, ps, r))
            => IF s \notin DOMAIN report_scripts THEN rresp'.code = 404
               ELSE IF t \notin DOMAIN agents THEN rresp'.code = 404
               ELSE IF agents[t].status # "online" THEN rresp'.code = 400
               ELSE IF \E i \in DOMAIN report_scripts[s].parameters :
                          /\ report_scripts[s].parameters[i].required
                          /\ report_scripts[s].parameters[i].name \notin ps
               THEN rresp'.code = 400
               ELSE rresp'.code = 200]_vars
    /\ [][rresp'.op = "run" /\ rresp' # rresp /\ rresp'.code # 200
            => /\ report_runs' = report_runs
               /\ run_info' = run_info /\ active_runs' = active_runs
               /\ task' = task /\ dispatched' = dispatched]_vars
    /\ [](\A r \in dispatched :
            /\ r \in DOMAIN report_runs
            /\ agents[report_runs[r].target_agent].status = "online"
            /\ report_runs[r].script_id \in DOMAIN report_scripts)

\* A run was started and dispatched, and a later call for an agent that is
\* not online has just been refused.
C30_Witness ==
    /\ rresp.op = "run" /\ rresp.code = 400 /\ rresp.detail = "agent not online"
    /\ dispatched # {}

\* The output frames of a buffer, in its order.
Frames(output) == [i \in DOMAIN output |-> OutputFrame(output[i])]

\* C27: a subscriber that attached to a retained run after it had ended, once
\* its replay is over, has received the whole output buffer followed by the
\* `complete` frame with the run's status and exit code.
C27_LateSubscriberGetsAll ==
    \A w \in WebSockets :
        (sockets[w].late /\ sockets[w].pc = "listening")
        => sockets[w].recv =
              Frames(run_info[sockets[w].run].output)
              \o <<CompleteFrame(report_runs[sockets[w].run].status,
                                 report_runs[sockets[w].run].exit_code)>>

\* C28: what a subscriber of a run has received is at every moment a prefix
\* of one sequence, the same for all: the run's output frames, each once and
\* in the order of the broadcasts, then one `complete` frame and nothing more.
C28_SameFrameSequence ==
    \A w \in WebSockets :
        sockets[w].pc \in {"replay", "listening", "closed", "crashed"}
           /\ sockets[w].recv # <<ErrorFrame>>
        => LET output == run_info[sockets[w].run].output IN
           \A i \in DOMAIN sockets[w].recv :
              IF i <= Len(output)
              THEN sockets[w].recv[i] = OutputFrame(output[i])
              ELSE i = Len(output) + 1 /\ sockets[w].recv[i].type = "complete"

\* The status and exit code execute_report is to persist for a reply.
ExpectedOutcome(reply) ==
    IF reply.kind = "200"
    THEN [status |-> IF reply.exit_code = 0 THEN "completed" ELSE "failed",
          exit_code |-> reply.exit_code]
    ELSE IF reply.kind = "timeout" THEN [status |-> "timeout", exit_code |-> -1]
    ELSE [status |-> "failed", exit_code |-> -1]

\* C29: a run whose task has come to the sleep of its finally clause, or has
\* evicted the in-memory state after it, has the terminal status and exit code
\* of the agent's reply in its row, written once: completed for exit code 0,
\* failed for another exit code or an error, timeout for a client timeout,
\* the error branches with exit code -1.
C29_RunEndsTerminal ==
    \A r \in DOMAIN task :
        task[r].pc \in {"sleeping", "done"}
        => /\ report_runs[r].status = ExpectedOutcome(task[r].reply).status
           /\ report_runs[r].exit_code = ExpectedOutcome(task[r].reply).exit_code
           /\ report_runs[r].writes = 1

\* The workflow routes that notify, with the notifier in any condition.
InitNotify ==
    /\ ControllerStart
    /\ ProxyStart
    /\ AgentsStart
    /\ DepsStart
    /\ ReportsStart
    /\ mailer \in MailOutcomes
    /\ TunnelStart
    /\ config = DeployedConfig
    /\ router = SortedBackends(config.backends, ListedBackends(config))

NextNotify ==
    \/ CreateLevels
    \/ Approve
    \/ DenyOnce
    \/ RequestReexec
    \/ ApproveReexec

SpecNotify == InitNotify /\ [][NextNotify]_vars

\* C31: whatever the notifier does, a create, approve, deny, re-execution
\* request or re-execution approval that changed the store answers with
\* success.
C31_NotifierNeverFails ==
    [][(/\ <<workflows, audit, reexecRequests, executionTokens>>'
             # <<workflows, audit, reexecRequests, executionTokens>>
        /\ resp'.op \in {"create", "approve", "deny", "reexec_request", "reexec_approve"})
       => resp'.code = 200]_vars

\* C32: every step that creates a workflow or changes its stored status
\* appends exactly one entry to its audit log and leaves the entries it had
\* as they were.
C32_TransitionsAudited ==
    [][\A w \in WorkflowIds :
          (IF w \in DOMAIN workflows THEN workflows[w].status ELSE "none")
             # (IF w \in DOMAIN workflows' THEN workflows'[w].status ELSE "none")
          => /\ Len(audit'[w]) = Len(audit[w]) + 1
             /\ SubSeq(audit'[w], 1, Len(audit[w])) = audit[w]]_vars

\* A workflow that asked for two approvals and got them from two approvers.
ApprovedByTwo(w) ==
    /\ w \in DOMAIN workflows
    /\ workflows[w].required_approval_levels = 2
    /\ workflows[w].status = "approved"
    /\ Len(workflows[w].approvals) = 2
    /\ workflows[w].approvals[1].approver # workflows[w].approvals[2].approver

\* C33 as stated: a third approve call by one of the two approvers of such a
\* workflow is answered 400 "Already approved by this user".
C33_ThirdApproveAlreadyApprovedByUser ==
    [][\A w \in WorkflowIds, a \in Users, l \in Levels :
          (ApprovedByTwo(w) /\ a \in approvers_of(w) /\ approve_workflow(a, w, a, l))
          => resp' = Response("approve", a, w, 400, "Already approved by this user")]_vars

\* C33: a third approve call by one of the two approvers of such a workflow
\* is answered 400 "Workflow is already approved", the answer of the status
\* test that precedes the test of the approver, and changes nothing.
C33_ThirdApproveRejected ==
    [][\A w \in WorkflowIds, a \in Users, l \in Levels :
          (ApprovedByTwo(w) /\ a \in approvers_of(w) /\ approve_workflow(a, w, a, l))
          => /\ resp' = Response("approve", a, w, 400, "Workflow is already approved")
             /\ UNCHANGED <<workflows, audit>>]_vars

C33_Witness ==
    \E w \in WorkflowIds :
        /\ ApprovedByTwo(w)
        /\ resp.op = "approve" /\ resp.wf = w /\ resp.code = 400
        /\ resp.who \in approvers_of(w)

\* ------------------------------------------------ ProxyServer._proxy_ws
\* The peer of a direction's read end sends a chunk, or closes its end.
peer_sends(d) ==
    /\ tunnel.pc # "none"
    /\ ~tunnel.eof[d] /\ ~tunnel.closed[ReadEnd(d)]
    /\ tunnel.sent[d] < MaxChunks
    /\ tunnel' = [tunnel EXCEPT !.sent[d] = @ + 1, !.inbox[d] = @ + 1]
    /\ UNCHANGED outsideTunnel

peer_closes(d) ==
    /\ tunnel.pc # "none"
    /\ ~tunnel.eof[d]
    /\ tunnel' = [tunnel EXCEPT !.eof[d] = TRUE]
    /\ UNCHANGED outsideTunnel

\* fwd: `data = await r.read(65536)` returns. Empty data ends the loop;
\* a chunk is written to the other end, which takes it unless it is closed,
\* and the task waits in drain.
fwd_reads(d) ==
    /\ tunnel.fwd[d].pc = "reading" /\ ~tunnel.fwd[d].must_cancel
    /\ IF tunnel.inbox[d] > 0
       THEN LET taken == ~tunnel.closed[WriteEnd(d)] IN
            tunnel' = [tunnel EXCEPT
                !.inbox[d] = @ - 1,
                !.fwd[d].pc = "draining",
                !.forwarded[d] = IF taken THEN @ + 1 ELSE @,
                !.after_end = IF taken /\ tunnel.pc = "ended" THEN @ + 1 ELSE @]
       ELSE /\ tunnel.eof[d] \/ tunnel.closed[ReadEnd(d)]
            /\ tunnel' = [tunnel EXCEPT !.fwd[d].pc = "done"]
    /\ UNCHANGED outsideTunnel

\* fwd: `await w.drain()` returns, or raises because the end written to is
\* gone; the bare except ends the task.
fwd_drained(d, raised) ==
    /\ tunnel.fwd[d].pc = "draining" /\ ~tunnel.fwd[d].must_cancel
    /\ raised => (tunnel.eof[Other(d)] \/ tunnel.closed[WriteEnd(d)])
    /\ tunnel' = [tunnel EXCEPT !.fwd[d].pc = IF raised THEN "done" ELSE "reading"]
    /\ UNCHANGED outsideTunnel

\* fwd: the CancelledError of t.cancel() is thrown into the task at its
\* await; the bare except catches it and the task ends.
fwd_cancelled(d) ==
    /\ tunnel.fwd[d].pc # "done" /\ tunnel.fwd[d].must_cancel
    /\ tunnel' = [tunnel EXCEPT !.fwd[d] = [pc |-> "done", must_cancel |-> FALSE]]
    /\ UNCHANGED outsideTunnel

\* asyncio.wait with return_when=ALL_COMPLETED.
all_completed(t) == \A d \in Directions : t.fwd[d].pc = "done"

\* asyncio.wait([t1, t2], return_when=asyncio.FIRST_COMPLETED) has a result.
first_completed(t) == \E d \in Directions : t.fwd[d].pc = "done"

\* `for t in pending: t.cancel()`
cancel_pending(t) ==
    [t EXCEPT !.fwd = [d \in Directions |->
                          IF t.fwd[d].pc = "done" THEN t.fwd[d]
                          ELSE [t.fwd[d] EXCEPT !.must_cancel = TRUE]]]

\* _proxy_ws returns to handle, whose finally clauses close the backend
\* writer and the client writer; there is no await on the way.
proxy_ws ==
    /\ tunnel.pc = "waiting"
    /\ first_completed(tunnel)
    /\ tunnel' = [cancel_pending(tunnel) EXCEPT
                     !.pc = "ended",
                     !.closed = [e \in {"client", "backend"} |-> TRUE]]
    /\ UNCHANGED outsideTunnel

InitTunnel ==
    /\ ControllerStart
    /\ ProxyStart
    /\ AgentsStart
    /\ DepsStart
    /\ ReportsStart
    /\ MailerStart
    /\ tunnel = OpenTunnel
    /\ config = DeployedConfig
    /\ router = SortedBackends(config.backends, ListedBackends(config))

PeerSends == \E d \in Directions : peer_sends(d)
PeerCloses == \E d \in Directions : peer_closes(d)
FwdReads == \E d \in Directions : fwd_reads(d)
FwdDrained == \E d \in Directions, raised \in BOOLEAN : fwd_drained(d, raised)
FwdCancelled == \E d \in Directions : fwd_cancelled(d)

NextTunnel ==
    \/ PeerSends
    \/ PeerCloses
    \/ FwdReads
    \/ FwdDrained
    \/ FwdCancelled
    \/ proxy_ws

\* The event loop runs every task that is ready: the copy tasks and the
\* handler whose wait has a result.
SpecTunnel ==
    /\ InitTunnel /\ [][NextTunnel]_vars
    /\ WF_vars(proxy_ws) /\ WF_vars(FwdReads) /\ WF_vars(FwdCancelled)

\* C34: once a copy task of a tunnel has read EOF and ended, the tunnel
\* ends; when it has ended both connections are closed and each copy task
\* has ended or is cancelled, and no chunk is forwarded in either direction
\* afterwards.
C34_TunnelEndsOnEof ==
    /\ [](tunnel.pc = "ended"
          => /\ tunnel.closed["client"] /\ tunnel.closed["backend"]
             /\ \A d \in Directions :
                    tunnel.fwd[d].pc = "done" \/ tunnel.fwd[d].must_cancel
             /\ tunnel.after_end = 0)
    /\ [][tunnel.pc = "ended" => tunnel.forwarded' = tunnel.forwarded]_vars
    /\ ((tunnel.pc = "waiting" /\ \E d \in Directions : tunnel.fwd[d].pc = "done")
         ~> tunnel.pc = "ended")

C34_Witness ==
    /\ tunnel.pc = "ended"
    /\ tunnel.eof["c2b"] /\ ~tunnel.eof["b2c"]
    /\ tunnel.forwarded["b2c"] > 0
    /\ tunnel.inbox["b2c"] > 0
    /\ tunnel.fwd["b2c"].pc = "done"

\* C35: a request routed to a backend with auth_required = false is taken
\* to that backend without any authentication step: no 401 is answered, no
\* identity is attached, and the backend is connected to.
C35_OpenBackendForwarded ==
    (/\ presp.op = "handle"
     /\ presp.bid \in DOMAIN config.backends
     /\ ~config.backends[presp.bid].auth_required)
    => /\ presp.status # 401
       /\ presp.user = NoUser
       /\ presp.contacted

\* ------------------------------------- the headers a backend is forwarded
\* The header lines a client adds to its request. parse_request keeps them
\* in a dict under their lower-cased names.
ClientHeaderNames == {"x-auth-user", "x-client-cert-cn", "x-forwarded-user", "x-auth-method"}
ClientHeaderValues == {"alice", "dave", "smartcard"}
HeaderLines == [name : ClientHeaderNames, value : ClientHeaderValues]
parse_request ==
    {h \in SeqsUpTo(HeaderLines, MaxHeaders) :
        \A i, j \in DOMAIN h : h[i].name = h[j].name => i = j}

\* The header names the proxy injects, as configured.
header_cert_cn == "X-Client-Cert-CN"
header_auth_method == "X-Auth-Method"

\* d[key] = value on a dict: the value of an existing key is replaced where
\* it stands, a new key goes to the end. Keys are compared as written.
Put(d, key, value) ==
    IF \E i \in DOMAIN d : d[i].name = key
    THEN [i \in DOMAIN d |-> IF d[i].name = key THEN [name |-> key, value |-> value]
                             ELSE d[i]]
    ELSE Append(d, [name |-> key, value |-> value])

\* handle: `bheaders = dict(headers)` and the identity headers set on it for
\* an authenticated user.
bheaders(headers, user) ==
    Put(Put(headers, header_cert_cn, user.cn), header_auth_method, user.auth_method)

\* str.lower() of a header name.
Lower(name) ==
    IF name = header_cert_cn THEN "x-client-cert-cn"
    ELSE IF name = header_auth_method THEN "x-auth-method"
    ELSE name

\* request.headers.get(name) at the backend: names match without regard to
\* case, and of several lines with one name the first is returned.
headers_get(lines, name) ==
    LET hits == {i \in DOMAIN lines : Lower(lines[i].name) = Lower(name)} IN
    IF hits = {} THEN ""
    ELSE lines[CHOOSE i \in hits : \A j \in hits : i <= j].value

\* The headers get_runtime_user_from_request reads of a request made of
\* these lines: X-Auth-User or X-Client-Cert-CN or X-Forwarded-User or
\* X-Remote-User, and X-Auth-Method.
hdr_request(lines) ==
    [auth_user |->
        IF headers_get(lines, "x-auth-user") # "" THEN headers_get(lines, "x-auth-user")
        ELSE IF headers_get(lines, header_cert_cn) # ""
        THEN headers_get(lines, header_cert_cn)
        ELSE IF headers_get(lines, "x-forwarded-user") # ""
        THEN headers_get(lines, "x-forwarded-user")
        ELSE headers_get(lines, "x-remote-user"),
     auth_method |-> headers_get(lines, header_auth_method),
     admin_token |-> "", agent_token |-> ""]

\* The backend runs verify_token on the request the proxy has just
\* forwarded for presp.user, the client having sent these header lines.
\* `verified` is the principal the proxy's own headers alone give.
backend_verifies(headers) ==
    /\ presp.op = "handle" /\ presp.forwarded
    /\ dresp' = DepReply("verify_token", hdr_request(bheaders(headers, presp.user)),
                         verify_token(hdr_request(bheaders(headers, presp.user))).code,
                         verify_token(hdr_request(bheaders(headers, presp.user))).user,
                         verify_token(hdr_request(bheaders(<<>>, presp.user))).user)
    /\ UNCHANGED <<outsideDeps, identity>>

BackendVerifies == \E headers \in parse_request : backend_verifies(headers)

NextForward ==
    \/ Accept
    \/ Handle
    \/ BackendVerifies

SpecForward == InitProxy /\ [][NextForward]_vars

\* C36: the principal verify_token gives at the backend for a forwarded
\* request is the one the proxy's identity headers give, whatever header
\* lines the client added to the request.
C36_IdentityFromProxyOnly ==
    dresp.op = "verify_token" => dresp.user = dresp.verified

\* ------------------------------------------------ Router.transform_path
\* Request paths with their slashes, and backends under such prefixes.
SlashChars == {"/", "a", "b"}
SlashPaths == {q \in SeqsUpTo(SlashChars, MaxPathLen) : q # <<>> /\ q[1] = "/"}
SlashPrefixes == {<<"/", "a">>, <<"/", "a", "b">>}
TransformConfigs ==
    {ProxyConfig("b1" :> [BackendConfig(q, TRUE) EXCEPT !.strip_prefix = s]
                   @@ "b2" :> BackendConfig(<<"/", "b">>, TRUE),
                 d, TRUE) :
        q \in SlashPrefixes, s \in BOOLEAN, d \in {NoBackend, "b1", "b2"}}

\* Router.transform_path: path[len(prefix):] with the leading slash
\* restored for a strip_prefix backend, and "/" for an empty path.
transform_path(path, backend) ==
    IF backend.strip_prefix
    THEN LET cut == SubSeq(path, Len(backend.path_prefix) + 1, Len(path)) IN
         IF cut = <<>> \/ cut[1] # "/" THEN <<"/">> \o cut ELSE cut
    ELSE IF path = <<>> THEN <<"/">> ELSE path

\* handle, from the routing of a path to the path sent to the backend.
routes_and_transforms(path) ==
    /\ \E r \in {route(path)} :
          presp' = [op |-> "transform_path", path |-> path, found |-> r.found, bid |-> r.bid,
                    bpath |-> IF r.found THEN transform_path(path, config.backends[r.bid])
                              ELSE <<>>]
    /\ UNCHANGED <<outsideProxy, now, config, router, sessions, conn>>

InitTransform ==
    /\ ControllerStart
    /\ ProxyStart
    /\ AgentsStart
    /\ DepsStart
    /\ ReportsStart
    /\ MailerStart
    /\ TunnelStart
    /\ config \in TransformConfigs
    /\ router = SortedBackends(config.backends, ListedBackends(config))

NextTransform == \E path \in SlashPaths : routes_and_transforms(path)

SpecTransform == InitTransform /\ [][NextTransform]_vars

\* C37: a path that reaches a strip_prefix backend without starting with
\* its prefix (through the default_backend fallback) is sent to the backend
\* as it came.
C37_FallbackPathUntouched ==
    (/\ presp.op = "transform_path" /\ presp.found
     /\ config.backends[presp.bid].strip_prefix
     /\ ~StartsWith(presp.path, config.backends[presp.bid].path_prefix))
    => presp.bpath = presp.path

\* C38: whatever subscribers attach, fail on a write or disconnect, and
\* whenever they do, a run that has ended holds the status and exit code of
\* the agent's reply in its row, a subscriber that listened from before the
\* first frame and is still connected has every output frame and the
\* terminal frame, and no socket whose handler has ended is left in the
\* subscriber list.
C38_SubscribersNeverChangeRun ==
    /\ \A w \in WebSockets :
          (sockets[w].pc \in {"closed", "crashed"} /\ sockets[w].run \in DOMAIN run_info)
          => w \notin Range(run_info[sockets[w].run].subscribers)
    /\ \A w \in WebSockets :
          (/\ sockets[w].pc = "listening" /\ sockets[w].client = "open"
           /\ sockets[w].ridx = 1 /\ ~sockets[w].late
           /\ task[sockets[w].run].pc \in {"sleeping", "done"})
          => /\ \A i \in DOMAIN run_info[sockets[w].run].output :
                   OutputFrame(run_info[sockets[w].run].output[i]) \in Range(sockets[w].recv)
             /\ \E i \in DOMAIN sockets[w].recv : sockets[w].recv[i].type = "complete"
    /\ \A r \in DOMAIN task :
          task[r].pc \in {"sleeping", "done"}
          => /\ report_runs[r].status = ExpectedOutcome(task[r].reply).status
             /\ report_runs[r].exit_code = ExpectedOutcome(task[r].reply).exit_code


\* ------------------------------------- claims on agents and environments
\* C39: no register, update or deregister call changes or removes an agent
\* that belongs to an environment the caller has no access to; a register
\* call reusing the name of such an agent leaves it in its environment.
C39_ForeignAgentUntouched ==
    [][\A a \in DOMAIN agents :
        ~user_can_access_environment(get_user_allowed_environments(aresp'.who),
                                     agents[a].environment)
        => a \in DOMAIN agents' /\ agents'[a] = agents[a]]_vars

\* ------------------------------------------ claims on approving principals
\* C40: an authenticated caller contributes at most one recorded approval to
\* a workflow that requires more than one: once a caller's approve call has
\* added an approval to the workflow, a further approve call by the same
\* caller records nothing and does not make the workflow approved, whatever
\* approver its body names.
C40_OneApprovalPerPrincipal ==
    [][\A u \in Users, w \in WorkflowIds, a \in Users, l \in Levels :
          (/\ workflow_exists(w)
           /\ workflows[w].required_approval_levels > 1
           /\ resp = Response("approve", u, w, 200, "Approval added")
           /\ approve_workflow(u, w, a, l))
          => /\ workflows'[w].approvals = workflows[w].approvals
             /\ workflows'[w].status = workflows[w].status]_vars

====
